---------------------------- MODULE Spec2Model ----------------------------
(***************************************************************************)
(* A model of karol11/reactive_json: the pull-style JSON readers           *)
(* (memory_block_reader, istream_reader) and the way an application drives *)
(* them through try_* / get_* calls and on_item / on_field callbacks.      *)
(*                                                                         *)
(* Bytes are natural numbers (their ASCII codes), the input is a sequence  *)
(* of bytes indexed from 1, a pointer into the input is an index, `end` is *)
(* Len(data) + 1 and the null pointer is 0.                                *)
(***************************************************************************)
EXTENDS Integers, Sequences, FiniteSets, TLC

VARIABLES
    data,        \* memory_block_reader: the memory block given to reset
    pos,         \* memory_block_reader::pos
    end,         \* memory_block_reader::end
    error_pos,   \* memory_block_reader::error_pos (0 is nullptr)
    error_text,  \* memory_block_reader::error_text
    stack,       \* the try/get_array and try/get_object calls in progress,
                 \* innermost last: each is inside its callback
    ev,          \* what the latest step did (the call, its result, the
                 \* reader before it): the observable outcome of a call
    stream,      \* istream_reader: the bytes of the std::istream
    spos,        \* istream_reader: how many bytes stream->get() has taken
    cur,         \* istream_reader::cur
    s_error_text \* istream_reader::error_text

vars == <<data, pos, end, error_pos, error_text, stack, ev,
          stream, spos, cur, s_error_text>>
memVars == <<data, pos, end, error_pos, error_text, stack>>
strVars == <<stream, spos, cur, s_error_text>>

-----------------------------------------------------------------------------
(* Characters.  Ch gives the byte of a one-character string.                *)

Ch(c) ==
    CASE c = " "  -> 32  [] c = "\"" -> 34  [] c = "+"  -> 43
      [] c = ","  -> 44  [] c = "-"  -> 45  [] c = "."  -> 46
      [] c = "/"  -> 47  [] c = "0"  -> 48  [] c = "1"  -> 49
      [] c = "2"  -> 50  [] c = "3"  -> 51  [] c = "4"  -> 52
      [] c = "5"  -> 53  [] c = "6"  -> 54  [] c = "7"  -> 55
      [] c = "8"  -> 56  [] c = "9"  -> 57  [] c = ":"  -> 58
      [] c = ";"  -> 59
      [] c = "A"  -> 65  [] c = "B"  -> 66  [] c = "C"  -> 67
      [] c = "D"  -> 68  [] c = "E"  -> 69  [] c = "F"  -> 70
      [] c = "I"  -> 73  [] c = "N"  -> 78
      [] c = "["  -> 91  [] c = "\\" -> 92  [] c = "]"  -> 93
      [] c = "a"  -> 97  [] c = "b"  -> 98  [] c = "c"  -> 99
      [] c = "d"  -> 100 [] c = "e"  -> 101 [] c = "f"  -> 102
      [] c = "i"  -> 105 [] c = "l"  -> 108 [] c = "n"  -> 110
      [] c = "r"  -> 114 [] c = "s"  -> 115 [] c = "t"  -> 116
      [] c = "u"  -> 117 [] c = "x"  -> 120 [] c = "y"  -> 121
      [] c = "{"  -> 123 [] c = "}"  -> 125
      [] c = "TAB" -> 9  [] c = "LF" -> 10  [] c = "CR" -> 13
      [] c = "BS" -> 8   [] c = "FF" -> 12

(* The bytes of a text written as a tuple of one-character strings.         *)
B(t) == [i \in 1..Len(t) |-> Ch(t[i])]

IsDigit(c) == c >= Ch("0") /\ c <= Ch("9")

-----------------------------------------------------------------------------
(* memory_block_reader.  A reader value r is the record of its fields       *)
(* [data, pos, end, error_pos, error_text]; every member function is an     *)
(* operator from the reader before the call to the reader after it (and the *)
(* value returned).                                                         *)

Reader == [data |-> data, pos |-> pos, end |-> end,
           error_pos |-> error_pos, error_text |-> error_text]

AtEnd(r) == r.pos = r.end

(* *pos: the byte at the cursor (only read where the code has checked       *)
(* pos != end).                                                             *)
Peek(r) == r.data[r.pos]

Advance(r) == [r EXCEPT !.pos = r.pos + 1]

(* skip_ws that skips nothing.                                              *)
skip_ws_none(r) == r

RECURSIVE skip_ws(_)
skip_ws(r) ==
    IF r.pos # r.end /\ Peek(r) <= Ch(" ")
    THEN skip_ws(Advance(r))
    ELSE r

(* set_error variants with one statement of its body left out.             *)
set_error_keeps_pos(r, text) ==
    IF r.error_pos = 0
    THEN [r EXCEPT !.error_pos = r.pos, !.error_text = text]
    ELSE r

set_error_unguarded(r, text) ==
    [r EXCEPT !.error_pos = r.pos, !.error_text = text, !.pos = r.end]

set_error(r, text) ==
    IF r.error_pos = 0
    THEN [r EXCEPT !.error_pos = r.pos, !.error_text = text, !.pos = r.end]
    ELSE r

success(r) == r.pos = r.end /\ r.error_pos = 0

(* reset(data, length): a zero length means strlen(data).                   *)
reset(d) ==
    skip_ws([data |-> d, pos |-> 1, end |-> Len(d) + 1,
             error_pos |-> 0, error_text |-> ""])

(* is(char term) that takes the byte before it compares it.                 *)
is_consuming(r, term) ==
    IF r.pos = r.end
    THEN [r |-> r, ret |-> FALSE]
    ELSE [r |-> skip_ws(Advance(r)), ret |-> Peek(r) = term]

(* is(char term)                                                            *)
is(r, term) ==
    IF r.pos = r.end \/ Peek(r) # term
    THEN [r |-> r, ret |-> FALSE]
    ELSE [r |-> skip_ws(Advance(r)), ret |-> TRUE]

(* is(const char* term): term is the keyword's bytes.                       *)
RECURSIVE is_keyword_from(_, _, _, _)
is_keyword_from(r, term, i, p) ==
    IF i > Len(term)
    THEN [r |-> skip_ws([r EXCEPT !.pos = p]), ret |-> TRUE]
    ELSE IF p = r.end \/ r.data[p] # term[i]
         THEN [r |-> r, ret |-> FALSE]
         ELSE is_keyword_from(r, term, i + 1, p + 1)

is_keyword(r, term) == is_keyword_from(r, term, 1, r.pos)

-----------------------------------------------------------------------------
(* std::from_chars(first, last, double&) in its default general format, as  *)
(* try_number calls it: an optional '-', then "inf", "infinity" or "nan" in *)
(* any case, or a decimal significand (digits with an optional '.', at      *)
(* least one digit) and an optional exponent (e or E, optional sign,        *)
(* digits) that is taken only when it is complete.  The value is kept       *)
(* exactly, as sign, decimal significand and decimal exponent.              *)

RECURSIVE Pow10(_)
Pow10(n) == IF n <= 0 THEN 1 ELSE 10 * Pow10(n - 1)

RECURSIVE NumDigits(_)
NumDigits(m) == IF m = 0 THEN 0 ELSE 1 + NumDigits(m \div 10)

(* Digits from p on, before last: where they stop, their value, their count. *)
RECURSIVE ScanDigits(_, _, _, _, _)
ScanDigits(d, p, last, acc, n) ==
    IF p < last /\ IsDigit(d[p])
    THEN ScanDigits(d, p + 1, last, acc * 10 + (d[p] - Ch("0")), n + 1)
    ELSE [ptr |-> p, val |-> acc, n |-> n]

Lower(c) == IF c >= Ch("A") /\ c <= 90 THEN c + 32 ELSE c

RECURSIVE MatchesNoCase(_, _, _, _, _)
MatchesNoCase(d, p, last, word, i) ==
    IF i > Len(word) THEN TRUE
    ELSE IF p >= last \/ Lower(d[p]) # word[i] THEN FALSE
    ELSE MatchesNoCase(d, p + 1, last, word, i + 1)

(* The first eight significant digits of a significand of nd digits.        *)
Leading8(m, nd) == IF nd <= 8 THEN m * Pow10(8 - nd) ELSE m \div Pow10(nd - 8)

(* Whether sign * mant * 10^exp is outside the range of double: at least    *)
(* 2^1024 - 2^970 = 1.7976931348623158...e308 in magnitude, or nonzero and  *)
(* below half the least subnormal, 2.4703282292062327...e-324.              *)
OutOfDoubleRange(mant, exp) ==
    LET nd    == NumDigits(mant)
        order == nd + exp
    IN  /\ mant # 0
        /\ \/ order > 309
           \/ order = 309 /\ Leading8(mant, nd) >= 17976932
           \/ order < -323
           \/ order = -323 /\ Leading8(mant, nd) <= 24703282

Num(kind, neg, mant, exp) ==
    [kind |-> kind, neg |-> neg, mant |-> mant, exp |-> exp]

NoNum == Num("none", FALSE, 0, 0)

(* The exponent part at p, the byte after the significand: where the number *)
(* stops and the exponent's value.  An 'e' that no digit follows (after an  *)
(* optional sign) is not part of the number.                                *)
ExponentSign(d, p, last) == p < last /\ d[p] \in {Ch("+"), Ch("-")}

ExponentOf(p, minus, ep) ==
    IF ep.n > 0
    THEN [ptr |-> ep.ptr, val |-> IF minus THEN 0 - ep.val ELSE ep.val]
    ELSE [ptr |-> p, val |-> 0]

ScanExponent(d, p, last) ==
    IF p < last /\ Lower(d[p]) = Ch("e")
    THEN ExponentOf(p, ExponentSign(d, p + 1, last) /\ d[p + 1] = Ch("-"),
                    ScanDigits(d, IF ExponentSign(d, p + 1, last)
                                  THEN p + 2 ELSE p + 1, last, 0, 0))
    ELSE [ptr |-> p, val |-> 0]

(* The fraction part after the integer part ip: the significand with the    *)
(* fraction's digits appended, and their count.                             *)
ScanFraction(d, last, ip) ==
    IF ip.ptr < last /\ d[ip.ptr] = Ch(".")
    THEN ScanDigits(d, ip.ptr + 1, last, ip.val, 0)
    ELSE [ptr |-> ip.ptr, val |-> ip.val, n |-> 0]

(* The result for nint integer digits, the fraction fp and the exponent ex. *)
from_chars_result(first, neg, nint, fp, ex) ==
    IF nint + fp.n = 0
    THEN [ec |-> "invalid_argument", ptr |-> first, val |-> NoNum]
    ELSE IF OutOfDoubleRange(fp.val, ex.val - fp.n)
    THEN [ec |-> "result_out_of_range", ptr |-> ex.ptr, val |-> NoNum]
    ELSE [ec |-> "ok", ptr |-> ex.ptr,
          val |-> Num("num", neg, fp.val, ex.val - fp.n)]

from_chars_decimal(d, first, last, neg, nint, fp) ==
    from_chars_result(first, neg, nint, fp, ScanExponent(d, fp.ptr, last))

from_chars_significand(d, first, last, neg, ip) ==
    from_chars_decimal(d, first, last, neg, ip.n, ScanFraction(d, last, ip))

(* The number at p0, after the sign.                                        *)
from_chars_unsigned(d, first, p0, last, neg) ==
    IF MatchesNoCase(d, p0, last, B(<<"i","n","f">>), 1)
    THEN [ec |-> "ok",
          ptr |-> IF MatchesNoCase(d, p0, last,
                        B(<<"i","n","f","i","n","i","t","y">>), 1)
                  THEN p0 + 8 ELSE p0 + 3,
          val |-> Num("inf", neg, 0, 0)]
    ELSE IF MatchesNoCase(d, p0, last, B(<<"n","a","n">>), 1)
    THEN [ec |-> "ok", ptr |-> p0 + 3, val |-> Num("nan", neg, 0, 0)]
    ELSE from_chars_significand(d, first, last, neg,
                                ScanDigits(d, p0, last, 0, 0))

from_chars(d, first, last) ==
    from_chars_unsigned(d, first,
                        IF first < last /\ d[first] = Ch("-")
                        THEN first + 1 ELSE first,
                        last, first < last /\ d[first] = Ch("-"))

IsNumberEnd(r) ==
    r.pos = r.end \/ Peek(r) \in {Ch(","), Ch("]"), Ch("}")}

(* std::optional<T>: has_value() and, with it, the value.                   *)
Some(v) == [has |-> TRUE, val |-> v]
None(v) == [has |-> FALSE, val |-> v]

(* try_number that answers nullopt for a number followed by anything else   *)
(* and leaves the reader as it was.                                         *)
try_number_end_quiet(r, state, r1) ==
    IF state.ec = "result_out_of_range"
    THEN [r |-> set_error(r, "numeric overflow"), ret |-> None(NoNum)]
    ELSE IF state.ec = "ok" /\ IsNumberEnd(r1)
    THEN [r |-> r1, ret |-> Some(state.val)]
    ELSE [r |-> r, ret |-> None(NoNum)]

(* try_number after from_chars has answered `state`.                        *)
try_number_end(r, state, r1) ==
    IF state.ec = "result_out_of_range"
    THEN [r |-> set_error(r, "numeric overflow"), ret |-> None(NoNum)]
    ELSE IF state.ec # "ok"
    THEN [r |-> r, ret |-> None(NoNum)]
    ELSE IF IsNumberEnd(r1)
    THEN [r |-> r1, ret |-> Some(state.val)]
    ELSE [r |-> set_error(r1, "number format error"), ret |-> None(NoNum)]

try_number_parsed(r, state) ==
    try_number_end(r, state, skip_ws([r EXCEPT !.pos = state.ptr]))

try_number(r) ==
    IF r.pos = r.end THEN [r |-> r, ret |-> None(NoNum)]
    ELSE try_number_parsed(r, from_chars(r.data, r.pos, r.end))

try_bool(r) ==
    LET f == is_keyword(r, B(<<"f","a","l","s","e">>))
        t == is_keyword(r, B(<<"t","r","u","e">>))
    IN  IF f.ret THEN [r |-> f.r, ret |-> Some(FALSE)]
        ELSE IF t.ret THEN [r |-> t.r, ret |-> Some(TRUE)]
        ELSE [r |-> r, ret |-> None(FALSE)]

get_null(r) == is_keyword(r, B(<<"n","u","l","l">>))

-----------------------------------------------------------------------------
(* The skip engine.                                                         *)

RECURSIVE skip_string_loop(_)
skip_string_loop(r) ==
    IF r.pos = r.end
    THEN set_error(r, "incomplete string while skipping")
    ELSE IF Peek(r) = Ch("\\")
    THEN LET r1 == Advance(r)
         IN  IF r1.pos = r1.end
             THEN set_error(r1, "incomplete string escape while skipping")
             ELSE skip_string_loop(Advance(r1))
    ELSE IF Peek(r) = Ch("\"")
    THEN Advance(r)
    ELSE skip_string_loop(Advance(r))

(* skip_string: called with the cursor after the opening quote.             *)
skip_string(r) == skip_ws(skip_string_loop(r))

(* A skip_until that counts brackets and does not compare them: a closer    *)
(* closes whatever is open, and brackets inside strings count as well.      *)
RECURSIVE skip_until_loop_counting(_, _, _, _)
skip_until_loop_counting(r, term, expects, most) ==
    IF r.pos = r.end
    THEN [r |-> set_error(r, "incomplete array"),
          expects |-> expects, most |-> most]
    ELSE IF Peek(r) \in {Ch("["), Ch("{")}
    THEN skip_until_loop_counting(Advance(r), term, Append(expects, Peek(r)),
                                  most + 1)
    ELSE IF Peek(r) \in {Ch("]"), Ch("}")}
    THEN IF Len(expects) = 1
         THEN [r |-> skip_ws(Advance(r)), expects |-> <<>>, most |-> most]
         ELSE skip_until_loop_counting(Advance(r), term,
                                       SubSeq(expects, 1, Len(expects) - 1),
                                       most)
    ELSE skip_until_loop_counting(Advance(r), term, expects, most)

(* The loop of skip_until, with its vector `expects`; `most` is the largest *)
(* size the vector has had.                                                 *)
RECURSIVE skip_until_loop(_, _, _, _)
skip_until_loop(r, term, expects, most) ==
    IF r.pos = r.end
    THEN [r |-> set_error(r, IF term = Ch("}") THEN "incomplete object"
                                               ELSE "incomplete array"),
          expects |-> expects, most |-> most]
    ELSE
    LET c  == Peek(r)
        r1 == Advance(r)
    IN  IF c = Ch("\"")
        THEN skip_until_loop(skip_string(r1), term, expects, most)
        ELSE IF c = Ch("[")
        THEN skip_until_loop(r1, term, Append(expects, Ch("]")),
                             IF Len(expects) + 1 > most
                             THEN Len(expects) + 1 ELSE most)
        ELSE IF c = Ch("{")
        THEN skip_until_loop(r1, term, Append(expects, Ch("}")),
                             IF Len(expects) + 1 > most
                             THEN Len(expects) + 1 ELSE most)
        ELSE IF c = Ch("]") \/ c = Ch("}")
        THEN IF expects = <<>> \/ expects[Len(expects)] # c
             THEN [r |-> set_error(r1, IF c = Ch("]") THEN "mismatched ]"
                                                      ELSE "mismatched }"),
                   expects |-> expects, most |-> most]
             ELSE IF Len(expects) = 1
             THEN [r |-> skip_ws(r1), expects |-> <<>>, most |-> most]
             ELSE skip_until_loop(r1, term, SubSeq(expects, 1, Len(expects) - 1),
                                  most)
        ELSE skip_until_loop(r1, term, expects, most)

(* A skip_until whose vector starts with a spare entry.                     *)
skip_until_spare(r, term) == skip_until_loop(r, term, <<term, term>>, 2)

(* skip_until(term): called with the cursor after the opening bracket.      *)
skip_until(r, term) == skip_until_loop(r, term, <<term>>, 1)

(* The bitset `mask` of skip_value: the bytes of a bare scalar.             *)
InScalarMask(c) ==
    \/ c \in {Ch("-"), Ch("."), Ch("+")}
    \/ c >= Ch("a") /\ c <= 122
    \/ c >= Ch("0") /\ c <= Ch("9")
    \/ c >= 1 /\ c <= Ch(" ")

RECURSIVE skip_scalar(_)
skip_scalar(r) ==
    IF r.pos # r.end /\ Peek(r) < 128 /\ InScalarMask(Peek(r))
    THEN skip_scalar(Advance(r))
    ELSE r

skip_value(r) ==
    IF r.pos = r.end THEN r
    ELSE IF Peek(r) = Ch("{") THEN skip_until(Advance(r), Ch("}")).r
    ELSE IF Peek(r) = Ch("[") THEN skip_until(Advance(r), Ch("]")).r
    ELSE IF Peek(r) = Ch("\"") THEN skip_string(Advance(r))
    ELSE skip_scalar(r)

-----------------------------------------------------------------------------
(* The string decoder.                                                      *)

(* max_size = ~0u, the default: larger than any size the model reaches      *)
(* (written within the range of TLC's integers).                            *)
NoCap == 2147483647

IsHex(c) ==
    \/ c >= Ch("0") /\ c <= Ch("9")
    \/ c >= Ch("a") /\ c <= Ch("f")
    \/ c >= Ch("A") /\ c <= Ch("F")

HexVal(c) ==
    IF c >= Ch("0") /\ c <= Ch("9") THEN c - Ch("0")
    ELSE IF c >= Ch("a") /\ c <= Ch("f") THEN c - Ch("a") + 10
    ELSE c - Ch("A") + 10

(* The lambda get_utf16 of get_codepoint: four times hex(), each shifting   *)
(* val left by four bits and adding a digit; n is the number left to read.  *)
RECURSIVE get_utf16(_, _, _)
get_utf16(r, val, n) ==
    IF n = 0 THEN [r |-> r, ret |-> TRUE, val |-> val]
    ELSE IF r.pos = r.end
    THEN [r |-> set_error(r, "incomplete \\uXXXX sequence"),
          ret |-> FALSE, val |-> val]
    ELSE IF IsHex(Peek(r))
    THEN get_utf16(Advance(r), val * 16 + HexVal(Peek(r)), n - 1)
    ELSE [r |-> set_error(r, "not a hex digit"), ret |-> FALSE, val |-> val]

(* 0xd800 = 55296, 0xdbff = 56319, 0xdd00 = 56576, 0xdfff = 57343,          *)
(* 0x3ff = 1023, 0x10000 = 65536.                                           *)
IsSecondSurrogate(v) == v >= 55296 /\ v <= 56319
IsFirstSurrogate(v) == v >= 56576 /\ v <= 57343
CombineSurrogates(first, second) ==
    ((first % 1024) * 1024 + (second % 1024)) + 65536

(* get_codepoint after its second get_utf16 has answered b; first is the    *)
(* unit read before it.                                                     *)
get_codepoint_pair(first, b) ==
    IF ~b.ret THEN [r |-> b.r, ret |-> FALSE, val |-> b.val]
    ELSE IF ~IsSecondSurrogate(b.val)
    THEN [r |-> set_error(b.r, "first surrogare without second one"),
          ret |-> FALSE, val |-> b.val]
    ELSE [r |-> b.r, ret |-> TRUE, val |-> CombineSurrogates(first, b.val)]

(* get_codepoint after its first get_utf16 has read val and left the reader *)
(* as r.                                                                    *)
get_codepoint_unit(r, val) ==
    IF IsSecondSurrogate(val)
    THEN [r |-> set_error(r, "second surrogare without first one"),
          ret |-> FALSE, val |-> val]
    ELSE IF IsFirstSurrogate(val)
    THEN IF \/ r.pos = r.end
            \/ Peek(r) # Ch("\\")
            \/ r.pos + 1 = r.end
            \/ r.data[r.pos + 1] # Ch("u")
         THEN [r |-> set_error(r, "first surrogare without following \\u"),
               ret |-> FALSE, val |-> 0]
         ELSE get_codepoint_pair(val,
                                 get_utf16([r EXCEPT !.pos = r.pos + 2], 0, 4))
    ELSE [r |-> r, ret |-> TRUE, val |-> val]

get_codepoint_first(a) ==
    IF ~a.ret THEN [r |-> a.r, ret |-> FALSE, val |-> a.val]
    ELSE get_codepoint_unit(a.r, a.val)

(* get_codepoint(val): called with the cursor at the 'u' of an escape.      *)
get_codepoint(r) == get_codepoint_first(get_utf16(Advance(r), 0, 4))

(* A byte of the block read without a bounds check: past the block it is    *)
(* whatever the memory holds, which the model gives as 0.                   *)
Raw(d, p) == IF p \in DOMAIN d THEN d[p] ELSE 0

(* get_codepoint_no_check(pos): pos is at the 'u'; gives the code point and *)
(* the pointer after the escape (or the pair).                              *)
get_codepoint_no_check(d, p) ==
    LET U16(q) == HexVal(Raw(d, q)) * 4096 + HexVal(Raw(d, q + 1)) * 256
                  + HexVal(Raw(d, q + 2)) * 16 + HexVal(Raw(d, q + 3))
        first == U16(p + 1)
    IN  IF first < 56576 \/ first > 57343
        THEN [ptr |-> p + 5, val |-> first]
        ELSE [ptr |-> p + 11,
              val |-> CombineSurrogates(first, U16(p + 7))]

(* The bytes put_utf8 writes for v.                                         *)
put_utf8(v) ==
    IF v <= 127 THEN <<v % 256>>
    ELSE IF v <= 2047
    THEN <<((v \div 64) + 192) % 256, (v % 64) + 128>>
    ELSE IF v <= 65535
    THEN <<((v \div 4096) + 224) % 256, ((v \div 64) % 64) + 128,
           (v % 64) + 128>>
    ELSE <<((v \div 262144) + 240) % 256, ((v \div 4096) % 64) + 128,
           ((v \div 64) % 64) + 128, (v % 64) + 128>>

codepoint_size(val) ==
    IF val <= 2047 THEN (IF val <= 127 THEN 1 ELSE 2)
    ELSE (IF val <= 65535 THEN 3 ELSE 4)

(* The lambda is_escape: the bytes of "\\\"/bfnrt" and its terminating 0.   *)
is_escape(c) ==
    c < 128 /\ c \in {Ch("\\"), Ch("\""), Ch("/"), Ch("b"), Ch("f"),
                      Ch("n"), Ch("r"), Ch("t"), 0}

(* The first loop of read_string_to_buffer: the cursor is after the opening *)
(* quote.  done says how the loop ended: "break" (at the closing quote, or  *)
(* cut with has_tail) or "return" (an error was set and the function        *)
(* returned true).  string_pass1_count is the end of the loop's body, where *)
(* a byte is counted; string_pass1_codepoint is its \u case, after          *)
(* get_codepoint has answered c; string_pass1_escape is its escape case,    *)
(* with the cursor after the backslash.                                     *)
RECURSIVE string_pass1(_, _, _), string_pass1_count(_, _, _),
          string_pass1_codepoint(_, _, _), string_pass1_escape(_, _, _)

(* The \u case of a first loop that counts one byte for every code point.   *)
string_pass1_codepoint_narrow(c, size, max_size) ==
    IF ~c.ret
    THEN [r |-> c.r, size |-> size, has_tail |-> FALSE, done |-> "return"]
    ELSE IF size + 1 > max_size
    THEN [r |-> c.r, size |-> size, has_tail |-> TRUE, done |-> "break"]
    ELSE string_pass1(c.r, size + 1, max_size)

string_pass1(r, size, max_size) ==
    IF r.pos = r.end
    THEN [r |-> set_error(r, "incomplete string"), size |-> size,
          has_tail |-> FALSE, done |-> "return"]
    ELSE IF Peek(r) = Ch("\"")
    THEN [r |-> skip_ws(Advance(r)), size |-> size,
          has_tail |-> FALSE, done |-> "break"]
    ELSE IF Peek(r) = Ch("\\")
    THEN string_pass1_escape(Advance(r), size, max_size)
    ELSE string_pass1_count(r, size, max_size)

string_pass1_count(r, size, max_size) ==
    IF size + 1 = max_size
    THEN [r |-> Advance(r), size |-> size + 1,
          has_tail |-> TRUE, done |-> "break"]
    ELSE string_pass1(Advance(r), size + 1, max_size)

string_pass1_codepoint(c, size, max_size) ==
    IF ~c.ret
    THEN [r |-> c.r, size |-> size, has_tail |-> FALSE, done |-> "return"]
    ELSE IF size + codepoint_size(c.val) > max_size
    THEN [r |-> c.r, size |-> size, has_tail |-> TRUE, done |-> "break"]
    ELSE string_pass1(c.r, size + codepoint_size(c.val), max_size)

string_pass1_escape(r, size, max_size) ==
    IF r.pos = r.end
    THEN [r |-> set_error(r, "incomplete escape"), size |-> size,
          has_tail |-> FALSE, done |-> "return"]
    ELSE IF Peek(r) = Ch("u")
    THEN string_pass1_codepoint(get_codepoint(r), size, max_size)
    ELSE IF ~is_escape(Peek(r))
    THEN [r |-> set_error(r, "invalid escape"), size |-> size,
          has_tail |-> FALSE, done |-> "return"]
    ELSE string_pass1_count(r, size, max_size)

(* An escape table that gives every escape its own letter.                  *)
UnEscape_verbatim(c) == c

UnEscape(c) ==
    CASE c = Ch("\\") -> Ch("\\")  [] c = Ch("\"") -> Ch("\"")
      [] c = Ch("/")  -> Ch("/")   [] c = Ch("b")  -> Ch("BS")
      [] c = Ch("f")  -> Ch("FF")  [] c = Ch("n")  -> Ch("LF")
      [] c = Ch("r")  -> Ch("CR")  [] c = Ch("t")  -> Ch("TAB")
      [] OTHER -> 0

(* The second loop of read_string_to_buffer: p re-walks the string from     *)
(* after the opening quote and out is what lies at the buffer up to dst; it *)
(* runs while dst != stop_at.  written counts the bytes of out that the     *)
(* loop has assigned: the default case of the switch (assert(false) when    *)
(* assertions are compiled in) steps over a byte and leaves it as the       *)
(* allocator gave it, 0 after std::string::resize.  over says that dst      *)
(* stepped past stop_at or p past the block, where the loop's behaviour is  *)
(* undefined.                                                               *)
RECURSIVE string_pass2(_, _, _, _, _)
string_pass2(d, p, size, out, written) ==
    IF Len(out) = size
    THEN [out |-> out, over |-> FALSE, written |-> written]
    ELSE IF Len(out) > size \/ p > Len(d)
    THEN [out |-> out, over |-> TRUE, written |-> written]
    ELSE IF d[p] = Ch("\\")
    THEN IF \/ p + 1 > Len(d)
            \/ /\ d[p + 1] = Ch("u")
               /\ get_codepoint_no_check(d, p + 1).ptr > Len(d) + 1
         THEN [out |-> out, over |-> TRUE, written |-> written]
         ELSE IF Raw(d, p + 1) = Ch("u")
         THEN string_pass2(d, get_codepoint_no_check(d, p + 1).ptr, size,
                           out \o put_utf8(get_codepoint_no_check(d, p + 1).val),
                           written
                           + Len(put_utf8(get_codepoint_no_check(d, p + 1).val)))
         ELSE string_pass2(d, p + 2, size, Append(out, UnEscape(Raw(d, p + 1))),
                           IF Raw(d, p + 1) \in {Ch("\\"), Ch("\""), Ch("/"),
                                                 Ch("b"), Ch("f"), Ch("n"),
                                                 Ch("r"), Ch("t")}
                           THEN written + 1 ELSE written)
    ELSE string_pass2(d, p + 1, size, Append(out, d[p]), written + 1)

(* What read_string_to_buffer answers.  called: the allocator was called,   *)
(* with `size`; out: the bytes at its buffer; over, written: see            *)
(* string_pass2.                                                            *)
StringResult(r, ret, called, size, out, over, written) ==
    [r |-> r, ret |-> ret, called |-> called, size |-> size,
     out |-> out, over |-> over, written |-> written]

(* read_string_to_buffer after its first loop has answered p1, the string   *)
(* starting after the quote at p.  alloc_null says that the allocator       *)
(* answers nullptr.                                                         *)
read_string_allocate(alloc_null, p1, p2) ==
    IF p1.done = "return"
    THEN StringResult(p1.r, TRUE, FALSE, 0, <<>>, FALSE, 0)
    ELSE IF alloc_null
    THEN StringResult(skip_string(p1.r), TRUE, TRUE, p1.size, <<>>, FALSE, 0)
    ELSE StringResult(IF p1.has_tail THEN skip_string(p1.r) ELSE p1.r,
                      TRUE, TRUE, p1.size, p2.out, p2.over, p2.written)

read_string_sized(d, p, alloc_null, p1) ==
    read_string_allocate(alloc_null, p1, string_pass2(d, p, p1.size, <<>>, 0))

(* read_string_to_buffer(allocator, context, max_size)                      *)
read_string_to_buffer(r, alloc_null, max_size) ==
    IF r.pos = r.end \/ Peek(r) # Ch("\"")
    THEN StringResult(r, FALSE, FALSE, 0, <<>>, FALSE, 0)
    ELSE read_string_sized(r.data, r.pos + 1, alloc_null,
                           string_pass1(Advance(r), 0, max_size))

(* The allocator of try_string(result, max_size) resizes `result` and never *)
(* answers nullptr; `result` is left as it was when it is not called.       *)
try_string_resized(s, result) ==
    [r |-> s.r, ret |-> s.ret, result |-> IF s.called THEN s.out ELSE result]

(* try_string(result, max_size)                                             *)
try_string_to(r, result, max_size) ==
    try_string_resized(read_string_to_buffer(r, FALSE, max_size), result)

try_string_optional(s) ==
    [r |-> s.r, ret |-> IF s.ret THEN Some(s.result) ELSE None(<<>>)]

(* std::optional<std::string> try_string(max_size)                          *)
try_string(r, max_size) ==
    try_string_optional(try_string_to(r, <<>>, max_size))

-----------------------------------------------------------------------------
(* The get_* forms and the helpers of try_object.                           *)

(* r ? *r : (skip_value(), default_val), for the optional t.ret.            *)
ValueOr(t, default_val) ==
    IF t.ret.has THEN [r |-> t.r, ret |-> t.ret.val]
    ELSE [r |-> skip_value(t.r), ret |-> default_val]

get_number(r, default_val) == ValueOr(try_number(r), default_val)

get_bool(r, default_val) ==
    LET f == is_keyword(r, B(<<"f","a","l","s","e">>))
        t == is_keyword(r, B(<<"t","r","u","e">>))
    IN  IF f.ret THEN [r |-> f.r, ret |-> FALSE]
        ELSE IF t.ret THEN [r |-> t.r, ret |-> TRUE]
        ELSE [r |-> skip_value(r), ret |-> default_val]

(* get_string that answers the value of the empty optional.                 *)
get_string_no_default(r, default_val, max_size) ==
    LET t == try_string(r, max_size)
    IN  [r |-> IF t.ret.has THEN t.r ELSE skip_value(t.r), ret |-> t.ret.val]

get_string(r, default_val, max_size) ==
    ValueOr(try_string(r, max_size), default_val)

(* handle_field_name after try_string(field_name) has answered s and        *)
(* is(':') has answered c.                                                  *)
handle_field_name_colon(s, c) ==
    IF ~s.ret
    THEN [r |-> set_error(s.r, "expected field name"), ret |-> FALSE,
          field_name |-> s.result]
    ELSE IF ~c.ret
    THEN [r |-> set_error(c.r, "expected ':'"), ret |-> FALSE,
          field_name |-> s.result]
    ELSE [r |-> c.r, ret |-> TRUE, field_name |-> s.result]

handle_field_name_read(s) == handle_field_name_colon(s, is(s.r, Ch(":")))

handle_field_name(r, field_name) ==
    handle_field_name_read(try_string_to(r, field_name, NoCap))

(* handle_object_start: ret is the pointer returned (0 is nullptr).         *)
handle_object_start_name(h) ==
    [r |-> h.r, ret |-> IF h.ret THEN h.r.pos ELSE 0,
     field_name |-> h.field_name]

handle_object_start(r, field_name) ==
    IF is(r, Ch("}")).ret
    THEN [r |-> is(r, Ch("}")).r, ret |-> 0, field_name |-> field_name]
    ELSE handle_object_start_name(handle_field_name(r, field_name))

(* handle_object_cont that ends the object at any byte that is not ','.     *)
handle_object_cont_at_lenient(r1, field_name, start_pos) ==
    IF is(r1, Ch(",")).ret
    THEN [r |-> is(r1, Ch(",")).r, ret |-> TRUE, field_name |-> field_name,
          start_pos |-> is(r1, Ch(",")).r.pos]
    ELSE [r |-> is(r1, Ch("}")).r, ret |-> FALSE, field_name |-> field_name,
          start_pos |-> start_pos]

(* handle_object_cont(field_name, start_pos): start_pos is the reference    *)
(* argument after the call.                                                 *)
handle_object_cont_name(h, start_pos) ==
    [r |-> h.r, ret |-> h.ret, field_name |-> h.field_name,
     start_pos |-> IF h.ret THEN h.r.pos ELSE start_pos]

handle_object_cont_at(r1, field_name, start_pos) ==
    IF is(r1, Ch(",")).ret
    THEN handle_object_cont_name(
             handle_field_name(is(r1, Ch(",")).r, field_name), start_pos)
    ELSE [r |-> IF is(r1, Ch("}")).ret THEN is(r1, Ch("}")).r
                ELSE set_error(r1, "expected ',' or '}'"),
          ret |-> FALSE, field_name |-> field_name, start_pos |-> start_pos]

handle_object_cont(r, field_name, start_pos) ==
    handle_object_cont_at(IF r.pos = start_pos THEN skip_value(r) ELSE r,
                          field_name, start_pos)

-----------------------------------------------------------------------------
(* The application.  A step is one call of a public member function by the  *)
(* application, at the top level or from inside the callback of the         *)
(* innermost traversal in progress, or the return of that callback; the     *)
(* step runs the reader up to the point where it returns to the application *)
(* or calls the application's next callback.                                *)

Store(r) ==
    /\ data' = r.data
    /\ pos' = r.pos
    /\ end' = r.end
    /\ error_pos' = r.error_pos
    /\ error_text' = r.error_text

(* A try/get_array or try/get_object call in progress: op is the member     *)
(* function, start_pos the local `p` of try_object (0 in an array).  The    *)
(* rest is history: the cursor when op was called, at each callback         *)
(* invocation and at each callback return, and each field name passed.      *)
Frame(op, start_pos, entry, cbs, rets, names) ==
    [op |-> op, start_pos |-> start_pos, entry |-> entry,
     cbs |-> cbs, rets |-> rets, names |-> names]

NoFrame == Frame("none", 0, 0, <<>>, <<>>, <<>>)

(* What a step did.  kind: "call" (a member function was called and has     *)
(* returned), "enter" (it was called and is now inside its first callback), *)
(* "next" (a callback returned and the traversal is inside its next         *)
(* callback), "exit" (a callback returned and the traversal returned);      *)
(* op: the member function; arg: its arguments; ret: what it returned;      *)
(* pre: the reader before the step; cb: the step ended by invoking a        *)
(* callback; alloc: the string allocator was called; frame: the traversal   *)
(* (for "enter", "next", "exit"); depth: the traversals in progress before. *)
(* arg and ret are kept under the name of the member function, their types *)
(* being its own.                                                           *)
Ev(kind, op, arg, ret, cb, alloc, frame) ==
    [kind |-> kind, op |-> op, arg |-> (op :> arg), ret |-> (op :> ret),
     pre |-> Reader, cb |-> cb, alloc |-> alloc, frame |-> frame,
     depth |-> Len(stack)]

(* The arguments and the result of the latest call.                         *)
Arg == ev.arg[ev.op]
Ret == ev.ret[ev.op]

Top == stack[Len(stack)]
Pop == SubSeq(stack, 1, Len(stack) - 1)

(* The default values the application passes to get_number and get_string.  *)
DefaultNumber == Num("num", TRUE, 55, 0)
DefaultString == B(<<"d","f","l","t">>)

MaxCap == 1
Caps == 0..MaxCap
Messages == {"", "stop"}

Simple(op, arg, res) ==
    /\ Store(res.r)
    /\ ev' = Ev("call", op, arg, res.ret, FALSE, FALSE, NoFrame)
    /\ UNCHANGED <<stack, strVars>>

TryNumber == Simple("try_number", <<>>, try_number(Reader))

GetNumber == Simple("get_number", <<DefaultNumber>>,
                    get_number(Reader, DefaultNumber))

TryBool == Simple("try_bool", <<>>, try_bool(Reader))

GetBool == \E d \in BOOLEAN : Simple("get_bool", <<d>>, get_bool(Reader, d))

GetNull == Simple("get_null", <<>>, get_null(Reader))

(* try_string() and get_string(default_val), max_size left to its default,  *)
(* and both with a max_size.                                                *)
TryString == Simple("try_string", <<NoCap>>, try_string(Reader, NoCap))

TryStringCapped ==
    \E m \in Caps : Simple("try_string", <<m>>, try_string(Reader, m))

GetString ==
    Simple("get_string", <<DefaultString, NoCap>>,
           get_string(Reader, DefaultString, NoCap))

GetStringCapped ==
    \E m \in Caps :
        Simple("get_string", <<DefaultString, m>>,
               get_string(Reader, DefaultString, m))

ReadStringToBuffer ==
    \E m \in Caps \cup {NoCap}, alloc_null \in BOOLEAN :
        LET s == read_string_to_buffer(Reader, alloc_null, m)
        IN  /\ Store(s.r)
            /\ ev' = Ev("call", "read_string_to_buffer", <<m, alloc_null>>,
                        [ret |-> s.ret, size |-> s.size, out |-> s.out,
                         over |-> s.over, written |-> s.written],
                        FALSE, s.called, NoFrame)
            /\ UNCHANGED <<stack, strVars>>

SetError == \E m \in Messages :
    /\ Store(set_error(Reader, m))
    /\ ev' = Ev("call", "set_error", <<m>>, TRUE, FALSE, FALSE, NoFrame)
    /\ UNCHANGED <<stack, strVars>>

(* try_array(on_item) and get_array(on_item), up to the first on_item().    *)
Array(op) ==
    LET a == is(Reader, Ch("["))
        b == is(a.r, Ch("]"))
        f == Frame(op, 0, pos, <<a.r.pos>>, <<>>, <<>>)
    IN  IF ~a.ret
        THEN /\ Store(IF op = "get_array" THEN skip_value(a.r) ELSE a.r)
             /\ ev' = Ev("call", op, <<>>, FALSE, FALSE, FALSE, NoFrame)
             /\ UNCHANGED <<stack, strVars>>
        ELSE IF b.ret
        THEN /\ Store(b.r)
             /\ ev' = Ev("call", op, <<>>, TRUE, FALSE, FALSE, NoFrame)
             /\ UNCHANGED <<stack, strVars>>
        ELSE /\ Store(a.r)
             /\ stack' = Append(stack, f)
             /\ ev' = Ev("enter", op, <<>>, TRUE, TRUE, FALSE, f)
             /\ UNCHANGED strVars

TryArray == Array("try_array")
GetArray == Array("get_array")

(* try_object(on_field) and get_object(on_field), up to the first           *)
(* on_field(field_name).                                                    *)
ObjectEnter(op, h, f) ==
    IF h.ret = 0
    THEN /\ Store(h.r)
         /\ ev' = Ev("call", op, <<>>, TRUE, FALSE, FALSE, NoFrame)
         /\ UNCHANGED <<stack, strVars>>
    ELSE /\ Store(h.r)
         /\ stack' = Append(stack, f)
         /\ ev' = Ev("enter", op, <<>>, TRUE, TRUE, FALSE, f)
         /\ UNCHANGED strVars

ObjectStart(op, h) ==
    ObjectEnter(op, h, Frame(op, h.ret, pos, <<h.r.pos>>, <<>>,
                             <<h.field_name>>))

Object(op) ==
    IF ~is(Reader, Ch("{")).ret
    THEN /\ Store(IF op = "get_object" THEN skip_value(Reader) ELSE Reader)
         /\ ev' = Ev("call", op, <<>>, FALSE, FALSE, FALSE, NoFrame)
         /\ UNCHANGED <<stack, strVars>>
    ELSE ObjectStart(op, handle_object_start(is(Reader, Ch("{")).r, <<>>))

TryObject == Object("try_object")
GetObject == Object("get_object")

(* A try_array loop that calls on_item again without asking for a comma.    *)
ArrayCont_again(f) ==
    /\ Store(Reader)
    /\ stack' = Append(Pop, [f EXCEPT !.rets = Append(@, pos),
                                      !.cbs = Append(@, pos)])
    /\ ev' = Ev("next", f.op, <<>>, TRUE, TRUE, FALSE,
                [f EXCEPT !.rets = Append(@, pos), !.cbs = Append(@, pos)])

(* A try_array loop that, like handle_object_cont, skips the item when the  *)
(* callback has left the cursor where it was.                               *)
ArrayCont_skipping(f) ==
    LET r0 == IF pos = f.cbs[Len(f.cbs)] THEN skip_value(Reader) ELSE Reader
        c  == is(r0, Ch(","))
        b  == is(r0, Ch("]"))
        f1 == [f EXCEPT !.rets = Append(@, pos)]
        f2 == [f1 EXCEPT !.cbs = Append(@, c.r.pos)]
    IN  IF c.ret
        THEN /\ Store(c.r)
             /\ stack' = Append(Pop, f2)
             /\ ev' = Ev("next", f.op, <<>>, TRUE, TRUE, FALSE, f2)
        ELSE /\ Store(IF b.ret THEN b.r
                      ELSE set_error(r0, "expected ',' or ']'"))
             /\ stack' = Pop
             /\ ev' = Ev("exit", f.op, <<>>, TRUE, FALSE, FALSE, f1)

(* The loop of try_array after on_item() has returned with the reader as r: *)
(* is(',') decides between the next on_item() and the end of the loop.      *)
(* call is what the callback did, for the record of the step.               *)
ArrayContAt(f, r, call) ==
    LET c  == is(r, Ch(","))
        b  == is(r, Ch("]"))
        f1 == [f EXCEPT !.rets = Append(@, r.pos)]
        f2 == [f1 EXCEPT !.cbs = Append(@, c.r.pos)]
    IN  IF c.ret
        THEN /\ Store(c.r)
             /\ stack' = Append(Pop, f2)
             /\ ev' = Ev("next", f.op, call, TRUE, TRUE, FALSE, f2)
        ELSE /\ Store(IF b.ret THEN b.r
                      ELSE set_error(r, "expected ',' or ']'"))
             /\ stack' = Pop
             /\ ev' = Ev("exit", f.op, call, TRUE, FALSE, FALSE, f1)

(* The innermost callback returns into the loop of try_array.               *)
ArrayCont(f) == ArrayContAt(f, Reader, <<>>)

(* An on_item that is one get_* call, as the callbacks of the reader tests  *)
(* are: [&] { a.get_number(0); }.  The step is the call and the callback's  *)
(* return into the loop of try_array.                                       *)
ItemGet(call, res) ==
    /\ stack # <<>>
    /\ Top.op \in {"try_array", "get_array"}
    /\ ArrayContAt(Top, res.r, <<call>>)
    /\ UNCHANGED strVars

ItemGetNumber == ItemGet("get_number", get_number(Reader, DefaultNumber))
ItemGetBool == ItemGet("get_bool", get_bool(Reader, FALSE))
ItemGetString == ItemGet("get_string", get_string(Reader, DefaultString, NoCap))

(* The innermost callback returns into the loop of try_object:              *)
(* handle_object_cont decides.                                              *)
ObjectNext(f, h, f1, f2) ==
    IF h.ret
    THEN /\ Store(h.r)
         /\ stack' = Append(Pop, f2)
         /\ ev' = Ev("next", f.op, <<>>, TRUE, TRUE, FALSE, f2)
    ELSE /\ Store(h.r)
         /\ stack' = Pop
         /\ ev' = Ev("exit", f.op, <<>>, TRUE, FALSE, FALSE, f1)

ObjectReturned(f, h) ==
    ObjectNext(f, h, [f EXCEPT !.rets = Append(@, pos)],
               [f EXCEPT !.rets = Append(@, pos),
                         !.cbs = Append(@, h.r.pos),
                         !.names = Append(@, h.field_name),
                         !.start_pos = h.start_pos])

ObjectCont(f) ==
    ObjectReturned(f, handle_object_cont(Reader, <<>>, f.start_pos))

Return ==
    /\ stack # <<>>
    /\ IF Top.op \in {"try_array", "get_array"}
       THEN ArrayCont(Top) ELSE ObjectCont(Top)
    /\ UNCHANGED strVars

-----------------------------------------------------------------------------
(* The inputs.                                                              *)

MaxLen == 2

Alphabet ==
    {Ch("["), Ch("]"), Ch("{"), Ch("}"), Ch(","), Ch("\""),
     Ch("1"), Ch(" ")}

ShortInputs == UNION {[1..n -> Alphabet] : n \in 0..MaxLen}

CuratedInputs ==
    { B(<<"[","[","]"," "," "," ","]">>),
      B(<<"{","\"","a","\"",":","1",",","}">>),
      B(<<"{","\"","a","\"",":","1",";","\"","b","\"",":","1","}">>),
      B(<<"{","\"","a","\"",":","1"," ","\"","b","\"",":","1","}">>),
      B(<<"{","\"","a","\"","}">>),
      B(<<"{","1","2","}">>),
      B(<<"[","1",",","]">>),
      B(<<"[","1",",",",","2","]">>),
      B(<<"[","[","1","]",",","{","\"","a","\"",":","[","1","E","2","]","}","]">>),
      B(<<"{","\"","a","\"",":","[","1",",","\"","b","\"","]",",","\"","b","\"",":","{","\"","c","\"",":","t","r","u","e","}","}">>),
      B(<<"[","1","E","2",",","1","]">>),
      B(<<"{","\"","a","\"",":","1","E","2",",","\"","b","\"",":","2","}">>),
      B(<<"[","t","r","u","e",",","n","u","l","l",",","\"","a","\\","\"","]","\"",",","-","1",".","5","e","+","2","]">>),
      B(<<"-","1",".","0","e","+","2","8","a">>),
      B(<<"1","e","9","9","9">>),
      B(<<"[","{","\"","a","\"",":","[","}","]">>),
      B(<<"\"","y","e","s","\"">>),
      B(<<"[","[","[","[">>),
      B(<<"t","r","u">>),
      B(<<"n","u","l","x">>),
      B(<<"[",",","1","]">>) }

ResetInputs == {B(<<" ","[","1","]">>), B(<<"1"," ">>)}

Inputs == ShortInputs \cup CuratedInputs

(* Well-formed JSON texts, built from the grammar: every value of at most   *)
(* MaxNodes nodes over the leaves below, compact, and every value of fewer  *)
(* nodes with a space wherever the grammar allows whitespace inside it.     *)
(* The i-th field of an object is named "a", "b", ...                       *)
MaxNodes == 3

Sp(ws) == IF ws THEN <<Ch(" ")>> ELSE <<>>

Leaves(ws) ==
    { B(<<"1","E","2">>), B(<<"\"","a","\"">>), B(<<"t","r","u","e">>),
      <<Ch("[")>> \o Sp(ws) \o <<Ch("]")>>,
      <<Ch("{")>> \o Sp(ws) \o <<Ch("}")>> }

RECURSIVE RenderItems(_, _, _, _)
RenderItems(l, i, obj, ws) ==
    IF i > Len(l) THEN <<>>
    ELSE (IF i > 1 THEN <<Ch(",")>> \o Sp(ws) ELSE <<>>)
         \o (IF obj
             THEN <<Ch("\""), Ch("a") + i - 1, Ch("\"")>> \o Sp(ws)
                  \o <<Ch(":")>> \o Sp(ws)
             ELSE <<>>)
         \o l[i] \o Sp(ws) \o RenderItems(l, i + 1, obj, ws)

RenderArray(l, ws) ==
    <<Ch("[")>> \o Sp(ws) \o RenderItems(l, 1, FALSE, ws) \o <<Ch("]")>>

RenderObject(l, ws) ==
    <<Ch("{")>> \o Sp(ws) \o RenderItems(l, 1, TRUE, ws) \o <<Ch("}")>>

RECURSIVE GenVals(_, _), GenLists(_, _)
GenVals(n, ws) ==
    IF n = 1 THEN Leaves(ws)
    ELSE {RenderArray(l, ws) : l \in GenLists(n - 1, ws)}
         \cup {RenderObject(l, ws) : l \in GenLists(n - 1, ws)}

GenLists(m, ws) ==
    IF m = 0 THEN {<<>>}
    ELSE UNION { {<<v>> \o rest : v \in GenVals(k, ws),
                                  rest \in GenLists(m - k, ws)} : k \in 1..m }

WellFormedInputs ==
    UNION {GenVals(n, FALSE) : n \in 1..MaxNodes}
    \cup UNION {GenVals(n, TRUE) : n \in 1..(MaxNodes - 1)}

(* reset(data) that leaves the error position and text as they were.       *)
Reset_keeping_error == \E d \in ResetInputs :
    /\ stack = <<>>
    /\ Store([reset(d) EXCEPT !.error_pos = error_pos,
                              !.error_text = error_text])
    /\ ev' = Ev("call", "reset", <<d>>, TRUE, FALSE, FALSE, NoFrame)
    /\ UNCHANGED <<stack, strVars>>

(* reset(data), called between traversals.                                  *)
Reset == \E d \in ResetInputs :
    /\ stack = <<>>
    /\ Store(reset(d))
    /\ ev' = Ev("call", "reset", <<d>>, TRUE, FALSE, FALSE, NoFrame)
    /\ UNCHANGED <<stack, strVars>>

NoStream ==
    /\ stream = <<>>
    /\ spos = 0
    /\ cur = 0
    /\ s_error_text = ""

InitOn(inputs) ==
    /\ \E d \in inputs :
         LET r == reset(d)
         IN  /\ data = r.data
             /\ pos = r.pos
             /\ end = r.end
             /\ error_pos = r.error_pos
             /\ error_text = r.error_text
             /\ ev = [kind |-> "call", op |-> "reset",
                      arg |-> ("reset" :> <<d>>), ret |-> ("reset" :> TRUE),
                      pre |-> r, cb |-> FALSE, alloc |-> FALSE,
                      frame |-> NoFrame, depth |-> 0]
    /\ stack = <<>>
    /\ NoStream

Init == InitOn(Inputs)

Next ==
    \/ TryNumber
    \/ GetNumber
    \/ TryBool
    \/ GetBool
    \/ GetNull
    \/ TryString
    \/ TryStringCapped
    \/ GetString
    \/ GetStringCapped
    \/ ReadStringToBuffer
    \/ TryArray
    \/ GetArray
    \/ TryObject
    \/ GetObject
    \/ SetError
    \/ Return
    \/ Reset

Spec == Init /\ [][Next]_vars

InitWF == InitOn(WellFormedInputs)

(* The application on a well-formed text: it extracts, probes and traverses, *)
(* and raises no error of its own.                                          *)
NextWF ==
    \/ TryNumber
    \/ GetNumber
    \/ TryBool
    \/ GetBool
    \/ GetNull
    \/ TryString
    \/ GetString
    \/ TryArray
    \/ GetArray
    \/ TryObject
    \/ GetObject
    \/ Return

SpecWF == InitWF /\ [][NextWF]_vars

(* A callback is application code that returns: the return of the innermost *)
(* callback, always possible while a traversal is in progress, eventually   *)
(* happens.                                                                 *)
NestedInputs ==
    { B(<<"[","{","\"","a","\"",":","[","}","]">>),
      B(<<"[","[","1",",","1","]",",","[","1","]","]">>) }

InitLive == InitOn(ShortInputs \cup NestedInputs)

SpecLive == InitLive /\ [][Next]_vars /\ WF_vars(Return)

-----------------------------------------------------------------------------
(* istream_reader.  A reader value s is the record [stream, spos, cur,      *)
(* error_text]: the bytes of the std::istream, how many stream->get() calls *)
(* it has answered (Len(stream) + 1 once a get() has met the end of the     *)
(* stream and the stream is no longer good()), the current byte and the     *)
(* error text.  The member functions carry the prefix istream_.             *)

StreamReader == [stream |-> stream, spos |-> spos, cur |-> cur,
                 error_text |-> s_error_text]

istream_getch(s) ==
    IF s.spos < Len(s.stream)
    THEN [s EXCEPT !.spos = s.spos + 1, !.cur = s.stream[s.spos + 1]]
    ELSE [s EXCEPT !.spos = Len(s.stream) + 1, !.cur = 0]

RECURSIVE istream_skip_ws(_)
istream_skip_ws(s) ==
    IF s.cur # 0 /\ s.cur <= Ch(" ")
    THEN istream_skip_ws(istream_getch(s))
    ELSE s

istream_set_error(s, text) ==
    IF s.error_text = ""
    THEN [s EXCEPT !.error_text = text, !.cur = 0]
    ELSE s

istream_success(s) == s.cur = 0 /\ s.error_text = ""

istream_reset(d) ==
    istream_skip_ws(istream_getch(
        [stream |-> d, spos |-> 0, cur |-> 0, error_text |-> ""]))

(* is(char term)                                                            *)
istream_is(s, term) ==
    IF s.cur # term
    THEN [s |-> s, ret |-> FALSE]
    ELSE [s |-> istream_skip_ws(istream_getch(s)), ret |-> TRUE]

(* The bitset of skip_ws_after_value holds 128 bits and is indexed by cur   *)
(* whenever cur <= 128; the inputs have no byte above 127.                  *)
istream_skip_ws_after_value(s) ==
    LET t == istream_skip_ws(s)
    IN  IF t.cur > 128 \/ t.cur \notin {0, Ch(","), Ch("}"), Ch("]")}
        THEN istream_set_error(t, "unexpected value at the end of value")
        ELSE t

(* The text of a keyword's tail, for the message of is(const char* term).  *)
Chr(c) ==
    CASE c = Ch("a") -> "a" [] c = Ch("e") -> "e" [] c = Ch("f") -> "f"
      [] c = Ch("l") -> "l" [] c = Ch("n") -> "n" [] c = Ch("r") -> "r"
      [] c = Ch("s") -> "s" [] c = Ch("t") -> "t" [] c = Ch("u") -> "u"

RECURSIVE Text(_, _)
Text(term, i) ==
    IF i > Len(term) THEN "" ELSE Chr(term[i]) \o Text(term, i + 1)

(* is(const char* term): the loop, `i` the index of *term after ++term.     *)
RECURSIVE istream_is_keyword_from(_, _, _)
istream_is_keyword_from(s, term, i) ==
    LET t == istream_getch(s)
    IN  IF i > Len(term)
        THEN [s |-> istream_skip_ws_after_value(t), ret |-> TRUE]
        ELSE IF term[i] # t.cur
        THEN [s |-> istream_set_error(t, "expected " \o Text(term, i)),
              ret |-> TRUE]
        ELSE istream_is_keyword_from(t, term, i + 1)

istream_is_keyword(s, term) ==
    IF s.cur # term[1]
    THEN [s |-> s, ret |-> FALSE]
    ELSE istream_is_keyword_from(s, term, 2)

RECURSIVE istream_skip_string_loop(_)
istream_skip_string_loop(s) ==
    IF s.cur = 0
    THEN istream_set_error(s, "incomplete string while skipping")
    ELSE IF s.cur = Ch("\\")
    THEN LET t == istream_getch(s)
         IN  IF t.cur = 0
             THEN istream_set_error(
                      t, "incomplete string escape while skipping")
             ELSE istream_skip_string_loop(istream_getch(t))
    ELSE IF s.cur = Ch("\"")
    THEN istream_getch(s)
    ELSE istream_skip_string_loop(istream_getch(s))

istream_skip_string(s) == istream_skip_ws(istream_skip_string_loop(s))

(* skip_until(term): the while loop, `expects` the vector of closers.       *)
RECURSIVE istream_skip_until_loop(_, _, _)
istream_skip_until_loop(s, term, expects) ==
    IF s.cur = 0
    THEN istream_set_error(s, IF term = Ch("}") THEN "incomplete object"
                              ELSE "incomplete array")
    ELSE IF s.cur = Ch("\"")
    THEN istream_skip_until_loop(istream_skip_string(istream_getch(s)),
                                 term, expects)
    ELSE IF s.cur = Ch("[")
    THEN istream_skip_until_loop(istream_getch(s), term,
                                 Append(expects, Ch("]")))
    ELSE IF s.cur = Ch("{")
    THEN istream_skip_until_loop(istream_getch(s), term,
                                 Append(expects, Ch("}")))
    ELSE IF s.cur \in {Ch("]"), Ch("}")}
    THEN IF expects = <<>> \/ expects[Len(expects)] # s.cur
         THEN istream_set_error(s, IF s.cur = Ch("]") THEN "mismatched ]"
                                   ELSE "mismatched }")
         ELSE IF Len(expects) = 1
         THEN istream_skip_ws(istream_getch(s))
         ELSE istream_skip_until_loop(istream_getch(s), term,
                                      SubSeq(expects, 1, Len(expects) - 1))
    ELSE istream_skip_until_loop(istream_getch(s), term, expects)

istream_skip_until(s, term) ==
    istream_skip_until_loop(istream_getch(s), term, <<term>>)

RECURSIVE istream_skip_scalar(_)
istream_skip_scalar(s) ==
    IF s.cur # 0 /\ s.cur < 128 /\ InScalarMask(s.cur)
    THEN istream_skip_scalar(istream_getch(s))
    ELSE s

istream_skip_value(s) ==
    IF s.cur = 0 THEN s
    ELSE IF s.cur = Ch("{") THEN istream_skip_until(s, Ch("}"))
    ELSE IF s.cur = Ch("[") THEN istream_skip_until(s, Ch("]"))
    ELSE IF s.cur = Ch("\"") THEN istream_skip_string(istream_getch(s))
    ELSE istream_skip_scalar(s)

istream_try_bool(s) ==
    LET f == istream_is_keyword(s, B(<<"f","a","l","s","e">>))
        t == istream_is_keyword(s, B(<<"t","r","u","e">>))
    IN  IF f.ret THEN [s |-> f.s, ret |-> Some(FALSE)]
        ELSE IF t.ret THEN [s |-> t.s, ret |-> Some(TRUE)]
        ELSE [s |-> s, ret |-> None(FALSE)]

istream_get_bool(s, default_val) ==
    LET t == istream_try_bool(s)
    IN  IF t.ret.has THEN [s |-> t.s, ret |-> t.ret.val]
        ELSE [s |-> istream_skip_value(s), ret |-> default_val]

istream_get_null(s) == istream_is_keyword(s, B(<<"n","u","l","l">>))

(* try_number.  The value is kept exactly, as the sign, decimal significand *)
(* and decimal exponent that the double arithmetic of the code approximates *)
(* (r * 10 + digit, r += weight * digit, r *= pow(10, e)); it is the double *)
(* itself for an integer below 2^53 with no fraction and no exponent.       *)

(* The loop of get_int and of the fraction: the digits '0' to '8'.          *)
RECURSIVE istream_digits(_, _, _)
istream_digits(s, acc, n) ==
    IF s.cur >= Ch("0") /\ s.cur < Ch("9")
    THEN istream_digits(istream_getch(s), acc * 10 + (s.cur - Ch("0")), n + 1)
    ELSE [s |-> s, val |-> acc, n |-> n]

istream_get_int_signed(neg, ds) ==
    [s |-> ds.s, neg |-> neg, val |-> ds.val, n |-> ds.n]

(* The lambda get_int: is('-') ? -1 : (is('+'), 1), then the digits.        *)
istream_get_int(s) ==
    IF istream_is(s, Ch("-")).ret
    THEN istream_get_int_signed(TRUE,
             istream_digits(istream_is(s, Ch("-")).s, 0, 0))
    ELSE istream_get_int_signed(FALSE,
             istream_digits(istream_is(s, Ch("+")).s, 0, 0))

(* r after the fraction digits fd have been added to the integer ip with    *)
(* the weights 0.1, 0.01, ..., negative when r < 0: -0.0 is not below 0, so *)
(* a fraction is added to it and the sum is not negative.                   *)
istream_fraction_added(ip, fd) ==
    IF fd.n = 0
    THEN [s |-> fd.s, val |-> Num("num", ip.neg, ip.val, 0)]
    ELSE [s |-> fd.s,
          val |-> Num("num", ip.neg /\ ip.val > 0,
                      ip.val * Pow10(fd.n) + fd.val, 0 - fd.n)]

istream_fraction(ip) ==
    IF istream_is(ip.s, Ch(".")).ret
    THEN istream_fraction_added(ip,
             istream_digits(istream_is(ip.s, Ch(".")).s, 0, 0))
    ELSE [s |-> ip.s, val |-> Num("num", ip.neg, ip.val, 0)]

(* Whether FE_OVERFLOW or FE_UNDERFLOW is raised by pow(10, e) or by the    *)
(* product mant * 10^exp: pow overflows above 10^308 and is subnormal below *)
(* 10^-307; the product overflows from 1.7976931348623158e308 and is        *)
(* subnormal below 2.2250738585072014e-308.                                 *)
FloatingExcept(mant, exp, e) ==
    \/ e > 308
    \/ e < -307
    \/ /\ mant # 0
       /\ \/ NumDigits(mant) + exp > 309
          \/ /\ NumDigits(mant) + exp = 309
             /\ Leading8(mant, NumDigits(mant)) >= 17976932
          \/ NumDigits(mant) + exp < -307
          \/ /\ NumDigits(mant) + exp = -307
             /\ Leading8(mant, NumDigits(mant)) < 22250739

(* r *= pow(10, e): infinite when pow or the product overflows, not a       *)
(* number for 0 * infinity.                                                 *)
istream_scaled(v, e) ==
    IF e > 308 /\ v.mant = 0 THEN Num("nan", v.neg, 0, 0)
    ELSE IF e > 308 THEN Num("inf", v.neg, 0, 0)
    ELSE IF FloatingExcept(v.mant, v.exp + e, e) /\ NumDigits(v.mant) + v.exp + e > 0
    THEN Num("inf", v.neg, 0, 0)
    ELSE Num("num", v.neg, v.mant, v.exp + e)

istream_exponent_read(f, ex) ==
    [s |-> ex.s,
     val |-> istream_scaled(f.val, IF ex.neg THEN 0 - ex.val ELSE ex.val),
     except |-> FloatingExcept(f.val.mant,
                               f.val.exp + (IF ex.neg THEN 0 - ex.val ELSE ex.val),
                               IF ex.neg THEN 0 - ex.val ELSE ex.val)]

(* if (is('e') || is('E')) r *= pow(10, get_int());                         *)
istream_exponent(f) ==
    IF istream_is(f.s, Ch("e")).ret
    THEN istream_exponent_read(f, istream_get_int(istream_is(f.s, Ch("e")).s))
    ELSE IF istream_is(f.s, Ch("E")).ret
    THEN istream_exponent_read(f, istream_get_int(istream_is(f.s, Ch("E")).s))
    ELSE [s |-> f.s, val |-> f.val, except |-> FALSE]

istream_try_number_end(x) ==
    IF x.except
    THEN [s |-> istream_set_error(x.s, "numeric overflow"), ret |-> Some(x.val)]
    ELSE [s |-> istream_skip_ws_after_value(x.s), ret |-> Some(x.val)]

istream_try_number(s) ==
    IF s.cur # Ch("-") /\ s.cur # Ch(".") /\ (s.cur < Ch("0") \/ s.cur > Ch("9"))
    THEN [s |-> s, ret |-> None(NoNum)]
    ELSE istream_try_number_end(
             istream_exponent(istream_fraction(istream_get_int(s))))

istream_value_or(s, t, default_val) ==
    IF t.ret.has THEN [s |-> t.s, ret |-> t.ret.val]
    ELSE [s |-> istream_skip_value(s), ret |-> default_val]

istream_get_number(s, default_val) ==
    istream_value_or(s, istream_try_number(s), default_val)

-----------------------------------------------------------------------------
(* The application of an istream_reader: set_error, the keyword probes and  *)
(* get_bool, a call per step.                                               *)

StreamStore(s) ==
    /\ stream' = s.stream
    /\ spos' = s.spos
    /\ cur' = s.cur
    /\ s_error_text' = s.error_text

StreamEv(op, arg, ret, pre) ==
    [kind |-> "call", op |-> op, arg |-> (op :> arg), ret |-> (op :> ret),
     pre |-> pre, cb |-> FALSE, alloc |-> FALSE, frame |-> NoFrame,
     depth |-> 0]

StreamSimple(op, arg, res) ==
    /\ StreamStore(res.s)
    /\ ev' = StreamEv(op, arg, res.ret, StreamReader)
    /\ UNCHANGED memVars

StreamTryBool == StreamSimple("try_bool", <<>>, istream_try_bool(StreamReader))

StreamGetBool ==
    \E d \in BOOLEAN :
        StreamSimple("get_bool", <<d>>, istream_get_bool(StreamReader, d))

StreamGetNull == StreamSimple("get_null", <<>>, istream_get_null(StreamReader))

StreamSetError ==
    \E m \in Messages :
        StreamSimple("set_error", <<m>>,
                     [s |-> istream_set_error(StreamReader, m), ret |-> TRUE])

StreamTryNumber ==
    StreamSimple("try_number", <<>>, istream_try_number(StreamReader))

StreamGetNumber ==
    StreamSimple("get_number", <<DefaultNumber>>,
                 istream_get_number(StreamReader, DefaultNumber))

MaxStreamLen == 2

StreamAlphabet == {Ch("["), Ch("]"), Ch("\""), Ch(","), Ch(" "), Ch("t")}

StreamInputs ==
    UNION {[1..n -> StreamAlphabet] : n \in 0..MaxStreamLen}
    \cup { B(<<"t","r","u","e">>), B(<<"f","a","l","s","e">>),
           B(<<"n","u","l","l">>), B(<<"t","r","u">>),
           B(<<"n","u","l","l","x">>), B(<<"t","r","u","e"," ",",">>),
           B(<<"[","\"","a","\\","\"","]","\"",",","{","}","]"," ","n">>),
           B(<<"{","\"","a","\"",":","[","1","]","}">>),
           B(<<"[","{","]">>), B(<<"\"","a","\\">>) }

StreamReset ==
    \E d \in {B(<<" ","t","r","u","e">>), <<>>} :
        /\ StreamStore(istream_reset(d))
        /\ ev' = StreamEv("reset", <<d>>, TRUE, StreamReader)
        /\ UNCHANGED memVars

InitStream ==
    /\ \E d \in StreamInputs :
         LET s == istream_reset(d)
         IN  /\ stream = s.stream
             /\ spos = s.spos
             /\ cur = s.cur
             /\ s_error_text = s.error_text
             /\ ev = StreamEv("reset", <<d>>, TRUE, s)
    /\ data = <<>>
    /\ pos = 1
    /\ end = 1
    /\ error_pos = 0
    /\ error_text = ""
    /\ stack = <<>>

NextStream ==
    \/ StreamTryBool
    \/ StreamGetBool
    \/ StreamGetNull
    \/ StreamSetError
    \/ StreamReset

SpecStream == InitStream /\ [][NextStream]_vars

-----------------------------------------------------------------------------
(* Numbers, read by both readers.  A memory_block_reader and an             *)
(* istream_reader are constructed on the same text: every text of up to     *)
(* MaxNumberLen bytes of NumberAlphabet, and longer ones with exponents out *)
(* of the range of double, the words of std::from_chars, and delimiters.    *)
MaxNumberLen == 3

NumberAlphabet ==
    {Ch("-"), Ch("1"), Ch("9"), Ch("."), Ch("e"), Ch(","), Ch(" "), Ch("x")}

NumberInputs ==
    UNION {[1..n -> NumberAlphabet] : n \in 0..MaxNumberLen}
    \cup { B(<<"1","e","4","0","0">>), B(<<"1","e","-","4","0","0">>),
           B(<<"8","e","3","0","8">>), B(<<"0","e","4","0","0">>),
           B(<<"1","e","9","9","9">>), B(<<"1","e","-","9","9","9">>),
           B(<<"i","n","f">>), B(<<"-","i","n","f">>), B(<<"n","a","n">>),
           B(<<"-","0",".","5">>), B(<<"1","e","+","2">>),
           B(<<"1","2","3">>), B(<<"-","4","5",",">>), B(<<"1","8"," ","]">>),
           B(<<"7","0","5","}">>), B(<<"-","1","0","9","8">>),
           B(<<"2","0","4","8"," ",","," ","1">>), B(<<"+","1">>) }

InitNumbers ==
    \E d \in NumberInputs :
        /\ data = reset(d).data
        /\ pos = reset(d).pos
        /\ end = reset(d).end
        /\ error_pos = reset(d).error_pos
        /\ error_text = reset(d).error_text
        /\ stack = <<>>
        /\ stream = istream_reset(d).stream
        /\ spos = istream_reset(d).spos
        /\ cur = istream_reset(d).cur
        /\ s_error_text = istream_reset(d).error_text
        /\ ev = StreamEv("reset", <<d>>, TRUE, istream_reset(d))

NextNumbers ==
    \/ TryNumber
    \/ GetNumber
    \/ StreamTryNumber
    \/ StreamGetNumber

SpecNumbers == InitNumbers /\ [][NextNumbers]_vars

-----------------------------------------------------------------------------
(* The JSON grammar of RFC 8259, against which the claims are stated: what  *)
(* a well-formed value is, where it ends, what its items and fields are and *)
(* what a string denotes.  Nothing here is taken from the reader's code.    *)
(* A position 0 means "no well-formed value here".                          *)

JsonIsWs(c) == c \in {Ch(" "), Ch("TAB"), Ch("LF"), Ch("CR")}

RECURSIVE JsonWsEnd(_, _)
JsonWsEnd(d, p) ==
    IF p >= 1 /\ p <= Len(d) /\ JsonIsWs(d[p]) THEN JsonWsEnd(d, p + 1) ELSE p

Is(d, p, c) == p >= 1 /\ p <= Len(d) /\ d[p] = c

JsonIsHex(c) ==
    \/ c >= Ch("0") /\ c <= Ch("9")
    \/ c >= Ch("a") /\ c <= Ch("f")
    \/ c >= Ch("A") /\ c <= Ch("F")

JsonHexVal(c) ==
    IF c <= Ch("9") THEN c - Ch("0")
    ELSE IF c >= Ch("a") THEN c - Ch("a") + 10
    ELSE c - Ch("A") + 10

JsonUnEscape(c) ==
    CASE c = Ch("b") -> 8  [] c = Ch("f") -> 12 [] c = Ch("n") -> 10
      [] c = Ch("r") -> 13 [] c = Ch("t") -> 9  [] OTHER -> c

RECURSIVE JsonDigitsEnd(_, _)
JsonDigitsEnd(d, p) ==
    IF p <= Len(d) /\ IsDigit(d[p]) THEN JsonDigitsEnd(d, p + 1) ELSE p

(* number = [ minus ] int [ frac ] [ exp ]                                  *)
JsonNumberEnd(d, p) ==
    LET p0 == IF Is(d, p, Ch("-")) THEN p + 1 ELSE p
        p1 == IF Is(d, p0, Ch("0")) THEN p0 + 1 ELSE JsonDigitsEnd(d, p0)
        f0 == IF Is(d, p1, Ch(".")) THEN JsonDigitsEnd(d, p1 + 1) ELSE p1
        p2 == IF Is(d, p1, Ch(".")) /\ f0 = p1 + 1 THEN 0 ELSE f0
        e0 == IF Is(d, p2, Ch("e")) \/ Is(d, p2, Ch("E"))
              THEN (IF Is(d, p2 + 1, Ch("+")) \/ Is(d, p2 + 1, Ch("-"))
                    THEN p2 + 2 ELSE p2 + 1)
              ELSE 0
        e1 == IF e0 = 0 THEN p2 ELSE JsonDigitsEnd(d, e0)
    IN  IF p1 = p0 \/ p2 = 0 \/ (e0 # 0 /\ e1 = e0) THEN 0 ELSE e1

(* string = quotation-mark *char quotation-mark                             *)
RECURSIVE JsonCharsEnd(_, _)
JsonCharsEnd(d, p) ==
    IF p > Len(d) THEN 0
    ELSE IF d[p] = Ch("\"") THEN p + 1
    ELSE IF d[p] < 32 THEN 0
    ELSE IF d[p] = Ch("\\")
    THEN IF p + 1 > Len(d) THEN 0
         ELSE IF d[p + 1] \in {Ch("\""), Ch("\\"), Ch("/"), Ch("b"), Ch("f"),
                               Ch("n"), Ch("r"), Ch("t")}
         THEN JsonCharsEnd(d, p + 2)
         ELSE IF d[p + 1] = Ch("u") /\ p + 5 <= Len(d)
                 /\ \A i \in 2..5 : JsonIsHex(d[p + i])
         THEN JsonCharsEnd(d, p + 6)
         ELSE 0
    ELSE JsonCharsEnd(d, p + 1)

JsonStringEnd(d, p) == IF Is(d, p, Ch("\"")) THEN JsonCharsEnd(d, p + 1) ELSE 0

JsonStartsWith(d, p, word) ==
    /\ p + Len(word) - 1 <= Len(d)
    /\ \A i \in 1..Len(word) : d[p + i - 1] = word[i]

JsonLiteralEnd(d, p) ==
    IF JsonStartsWith(d, p, B(<<"t","r","u","e">>)) THEN p + 4
    ELSE IF JsonStartsWith(d, p, B(<<"n","u","l","l">>)) THEN p + 4
    ELSE IF JsonStartsWith(d, p, B(<<"f","a","l","s","e">>)) THEN p + 5
    ELSE 0

NoElems == [end |-> 0, starts |-> <<>>, names |-> <<>>]

(* The value at p: the position after its last byte.  The members of the    *)
(* array or object whose first member (or field name) starts at q: the      *)
(* position after the closing bracket, where each member's value starts     *)
(* and, in an object, where each field name starts.                         *)
RECURSIVE JsonValueEnd(_, _), JsonMembers(_, _, _, _, _)
JsonValueEnd(d, p) ==
    IF p < 1 \/ p > Len(d) THEN 0
    ELSE IF d[p] = Ch("[")
    THEN LET q == JsonWsEnd(d, p + 1)
         IN  IF Is(d, q, Ch("]")) THEN q + 1
             ELSE JsonMembers(d, q, FALSE, <<>>, <<>>).end
    ELSE IF d[p] = Ch("{")
    THEN LET q == JsonWsEnd(d, p + 1)
         IN  IF Is(d, q, Ch("}")) THEN q + 1
             ELSE JsonMembers(d, q, TRUE, <<>>, <<>>).end
    ELSE IF d[p] = Ch("\"") THEN JsonStringEnd(d, p)
    ELSE IF d[p] = Ch("-") \/ IsDigit(d[p]) THEN JsonNumberEnd(d, p)
    ELSE JsonLiteralEnd(d, p)

JsonMembers(d, q, obj, starts, names) ==
    LET n  == IF obj THEN JsonStringEnd(d, q) ELSE q
        c  == IF obj /\ n # 0 THEN JsonWsEnd(d, n) ELSE n
        v  == IF ~obj THEN q
              ELSE IF n # 0 /\ Is(d, c, Ch(":")) THEN JsonWsEnd(d, c + 1)
              ELSE 0
        e  == IF v = 0 THEN 0 ELSE JsonValueEnd(d, v)
        a  == JsonWsEnd(d, e)
        s1 == Append(starts, v)
        n1 == IF obj THEN Append(names, q) ELSE names
    IN  IF e = 0 THEN NoElems
        ELSE IF Is(d, a, Ch(","))
        THEN JsonMembers(d, JsonWsEnd(d, a + 1), obj, s1, n1)
        ELSE IF Is(d, a, IF obj THEN Ch("}") ELSE Ch("]"))
        THEN [end |-> a + 1, starts |-> s1, names |-> n1]
        ELSE NoElems

(* The members of the well-formed array or object at p.                     *)
JsonElems(d, p) ==
    LET q == JsonWsEnd(d, p + 1)
    IN  IF JsonValueEnd(d, p) = 0 \/ d[p] \notin {Ch("["), Ch("{")}
        THEN NoElems
        ELSE IF Is(d, q, Ch("]")) \/ Is(d, q, Ch("}"))
        THEN [end |-> q + 1, starts |-> <<>>, names |-> <<>>]
        ELSE JsonMembers(d, q, d[p] = Ch("{"), <<>>, <<>>)

(* The first significant byte after the well-formed value at p.             *)
JsonAfter(d, p) == JsonWsEnd(d, JsonValueEnd(d, p))

JsonKind(d, p) ==
    IF JsonValueEnd(d, p) = 0 THEN "none"
    ELSE IF d[p] = Ch("[") THEN "array"
    ELSE IF d[p] = Ch("{") THEN "object"
    ELSE IF d[p] = Ch("\"") THEN "string"
    ELSE IF d[p] = Ch("-") \/ IsDigit(d[p]) THEN "number"
    ELSE IF d[p] = Ch("n") THEN "null"
    ELSE "bool"

(* UTF-8 (RFC 3629) of a code point.                                        *)
Utf8(v) ==
    IF v < 128 THEN <<v>>
    ELSE IF v < 2048 THEN <<192 + (v \div 64), 128 + (v % 64)>>
    ELSE IF v < 65536
    THEN <<224 + (v \div 4096), 128 + ((v \div 64) % 64), 128 + (v % 64)>>
    ELSE <<240 + (v \div 262144), 128 + ((v \div 4096) % 64),
           128 + ((v \div 64) % 64), 128 + (v % 64)>>

JsonHex4(d, p) ==
    JsonHexVal(d[p]) * 4096 + JsonHexVal(d[p + 1]) * 256
    + JsonHexVal(d[p + 2]) * 16 + JsonHexVal(d[p + 3])

JsonIsHigh(v) == v >= 55296 /\ v <= 56319
JsonIsLow(v) == v >= 56320 /\ v <= 57343

(* What the characters from p up to the closing quote denote, as UTF-8: an  *)
(* escaped high surrogate and the escaped low surrogate after it are one    *)
(* code point (RFC 8259, section 7).  ok is false at an unpaired surrogate. *)
RECURSIVE JsonDecodeFrom(_, _, _)
JsonDecodeFrom(d, p, out) ==
    IF d[p] = Ch("\"") THEN [ok |-> TRUE, str |-> out]
    ELSE IF d[p] # Ch("\\") THEN JsonDecodeFrom(d, p + 1, Append(out, d[p]))
    ELSE IF d[p + 1] # Ch("u")
    THEN JsonDecodeFrom(d, p + 2, Append(out, JsonUnEscape(d[p + 1])))
    ELSE LET v == JsonHex4(d, p + 2)
             paired == /\ JsonIsHigh(v)
                       /\ JsonStartsWith(d, p + 6, B(<<"\\","u">>))
                       /\ p + 11 <= Len(d)
                       /\ \A i \in 8..11 : JsonIsHex(d[p + i])
                       /\ JsonIsLow(JsonHex4(d, p + 8))
         IN  IF paired
             THEN JsonDecodeFrom(d, p + 12,
                    out \o Utf8(65536 + (v - 55296) * 1024
                                + (JsonHex4(d, p + 8) - 56320)))
             ELSE IF JsonIsHigh(v) \/ JsonIsLow(v)
             THEN [ok |-> FALSE, str |-> out]
             ELSE JsonDecodeFrom(d, p + 6, out \o Utf8(v))

(* The string denoted by the well-formed string literal at p.               *)
JsonDecode(d, p) == JsonDecodeFrom(d, p + 1, <<>>)


-----------------------------------------------------------------------------
(* The claims.                                                              *)

(* C1: once an error is latched (by the reader or by set_error called in a  *)
(* callback, at any nesting depth), no on_item / on_field callback is       *)
(* invoked again: a step that ends inside a callback starts and ends with   *)
(* no error, a callback that returns with the error latched makes its       *)
(* traversal return (never call the next callback), no traversal is         *)
(* entered, and all traversals in progress eventually have returned.        *)
C1_ErrorHaltsTraversals ==
    /\ [](ev.cb => (ev.pre.error_pos = 0 /\ error_pos = 0))
    /\ [][error_pos # 0 /\ stack # <<>> =>
             \/ stack' = stack /\ ev'.kind = "call"
             \/ stack' = Pop /\ ev'.kind = "exit"]_vars
    /\ ((error_pos # 0) ~> (stack = <<>>))

(* An application set_error("stop") two or more traversals deep, and the    *)
(* innermost traversal has returned.                                        *)
C1_Witness ==
    /\ ev.kind = "exit"
    /\ ev.depth >= 2
    /\ ev.pre.error_pos # 0
    /\ ev.pre.error_text = "stop"
    /\ error_pos = ev.pre.error_pos

(* C2, istream_reader: success() is true only when the whole stream has    *)
(* been read, it is false after every set_error(m), and it is true when the *)
(* whole stream has been read and no error text is recorded.                *)
C2_StreamSuccessIffConsumedNoError ==
    /\ istream_success(StreamReader) => spos = Len(stream) + 1
    /\ ev.op = "set_error" => ~istream_success(StreamReader)
    /\ (spos = Len(stream) + 1 /\ s_error_text = "") =>
           istream_success(StreamReader)

(* C2, memory_block_reader: success() is true only at the end of the input  *)
(* with no error latched, false after every set_error(m) and after every    *)
(* call that found an error latched, and true at the end of the input when  *)
(* no error is latched.                                                     *)
C2_MemorySuccessIffConsumedNoError ==
    /\ success(Reader) => (pos = end /\ error_pos = 0)
    /\ ev.op = "set_error" => ~success(Reader)
    /\ (ev.op # "reset" /\ ev.pre.error_pos # 0) => ~success(Reader)
    /\ (pos = end /\ error_pos = 0) => success(Reader)

(* C3: the error latch of the memory-block reader is first-error-wins.  A   *)
(* set_error(m) with no error latched records the cursor and m; with an     *)
(* error latched, no call other than reset changes error_pos or error_text, *)
(* a later set_error(m2) included.                                          *)
C3_FirstErrorWins ==
    /\ (ev.op = "set_error" /\ ev.pre.error_pos = 0) =>
            (error_pos = ev.pre.pos /\ error_text = Arg[1])
    /\ (ev.op # "reset" /\ ev.pre.error_pos # 0) =>
            (error_pos = ev.pre.error_pos /\ error_text = ev.pre.error_text)

(* set_error(m2) was called with another message m1 latched.                *)
C3_Witness ==
    /\ ev.op = "set_error"
    /\ ev.pre.error_pos # 0
    /\ Arg[1] # ev.pre.error_text
    /\ error_text = ev.pre.error_text

(* C4: with an error latched the cursor is at the end of the input, and a   *)
(* call made with an error latched behaves as on exhausted input: it leaves *)
(* the reader as it was (cursor and recorded error), invokes neither a      *)
(* callback nor the allocator, try_number / try_bool / try_string return    *)
(* nullopt, get_null returns false, get_number / get_bool / get_string      *)
(* return the default given, try_array / try_object return false.           *)
C4_ErrorBehavesAsExhausted ==
    /\ error_pos # 0 => pos = end
    /\ (ev.kind = "call" /\ ev.op \notin {"reset", "set_error"}
           /\ ev.pre.error_pos # 0) =>
          /\ Reader = ev.pre
          /\ ~ev.cb
          /\ ~ev.alloc
          /\ ev.op \in {"try_number", "try_bool", "try_string"} => ~Ret.has
          /\ ev.op \in {"get_null", "try_array", "try_object"} => Ret = FALSE
          /\ ev.op \in {"get_number", "get_bool", "get_string"} =>
                Ret = Arg[1]
          /\ ev.op = "read_string_to_buffer" => ~Ret.ret

(* get_string was called with an error latched before the end of the input. *)
C4_Witness ==
    /\ ev.kind = "call"
    /\ ev.op = "get_string"
    /\ ev.pre.error_pos # 0
    /\ ev.pre.error_pos < end
    /\ Ret = DefaultString
    /\ pos = end

(* Whether op is a probe that fails at the cursor of r: try_array not at    *)
(* '[', try_object not at '{', try_string / read_string_to_buffer not at    *)
(* '"'.                                                                     *)
Opener(op) ==
    CASE op = "try_array" -> Ch("[")
      [] op = "try_object" -> Ch("{")
      [] OTHER -> Ch("\"")

ProbeFails(r, op) ==
    /\ op \in {"try_array", "try_object", "try_string",
               "read_string_to_buffer"}
    /\ (r.pos = r.end \/ r.data[r.pos] # Opener(op))

(* C10: a probe called where the cursor is not at its opening byte returns  *)
(* false (nullopt), invokes neither callback nor allocator and leaves the   *)
(* reader as it was: cursor unchanged, no error latched.  The reader being  *)
(* as it was, the next probe sees what this one saw.                        *)
C10_FailedProbeIsNoOp ==
    (ev.kind \in {"call", "enter"} /\ ProbeFails(ev.pre, ev.op)) =>
        /\ ev.kind = "call"
        /\ ~ev.cb
        /\ ~ev.alloc
        /\ Reader = ev.pre
        /\ ev.op \in {"try_array", "try_object"} => Ret = FALSE
        /\ ev.op = "try_string" => ~Ret.has
        /\ ev.op = "read_string_to_buffer" => ~Ret.ret

(* try_object was called at a '[' with no error latched.                    *)
C10_Witness ==
    /\ ev.op = "try_object"
    /\ ev.pre.error_pos = 0
    /\ ev.pre.pos # ev.pre.end
    /\ Peek(ev.pre) = Ch("[")
    /\ Ret = FALSE
    /\ pos = ev.pre.pos

(* What the claims about traversals and skipping speak of.                  *)

IsArrayOp(op) == op \in {"try_array", "get_array"}
IsObjectOp(op) == op \in {"try_object", "get_object"}

(* A well-formed value starts at the cursor of r and no error is latched.   *)
WellFormedAt(r) == r.error_pos = 0 /\ JsonValueEnd(r.data, r.pos) # 0

(* The kind of value a get_* form asks for.                                 *)
Wanted(op) ==
    CASE op = "get_number" -> "number"
      [] op = "get_bool"   -> "bool"
      [] op = "get_string" -> "string"
      [] op = "get_array"  -> "array"
      [] op = "get_object" -> "object"
      [] OTHER -> "none"

Mismatch(r, op) ==
    /\ Wanted(op) # "none"
    /\ WellFormedAt(r)
    /\ JsonKind(r.data, r.pos) # Wanted(op)

(* The traversal of the latest step: its frame, the members the grammar     *)
(* gives the value it was called at, and what its callbacks did so far.     *)
Fr == ev.frame
Elems == JsonElems(data, Fr.entry)
Returned == 1..Len(Fr.rets)
Idle == \A i \in Returned : Fr.rets[i] = Fr.cbs[i]
Exact == \A i \in Returned : Fr.rets[i] = JsonAfter(data, Fr.cbs[i])
IdleOrExact ==
    \A i \in Returned : Fr.rets[i] \in {Fr.cbs[i], JsonAfter(data, Fr.cbs[i])}

(* The latest step is the return of a traversal of a well-formed array /    *)
(* object.                                                                  *)
ArrayExit ==
    /\ ev.kind = "exit" /\ IsArrayOp(ev.op)
    /\ JsonValueEnd(data, Fr.entry) # 0
ObjectExit ==
    /\ ev.kind = "exit" /\ IsObjectOp(ev.op)
    /\ JsonValueEnd(data, Fr.entry) # 0

(* C5: a get_* form called at a well-formed value of another type returns   *)
(* the default (get_array / get_object invoke no callback), latches no      *)
(* error and leaves the cursor at the first significant byte after the      *)
(* value.                                                                   *)
C5_MismatchSkipsValue ==
    (ev.kind \in {"call", "enter"} /\ Mismatch(ev.pre, ev.op)) =>
        /\ ev.kind = "call"
        /\ ~ev.cb
        /\ ev.op \in {"get_number", "get_bool", "get_string"} =>
              Ret = Arg[1]
        /\ error_pos = 0
        /\ pos = JsonAfter(data, ev.pre.pos)

(* C6: try_object / get_object of a well-formed object with a callback that *)
(* consumes nothing invokes it once per field, latches no error and leaves  *)
(* the cursor at the first significant byte after the closing brace.        *)
C6_IdleFieldCallbackSkips ==
    (ObjectExit /\ Idle) =>
        /\ Len(Fr.cbs) = Len(Elems.starts)
        /\ error_pos = 0
        /\ pos = JsonAfter(data, Fr.entry)

(* C7 as the specification states it: try_array / get_array of a            *)
(* well-formed non-empty array with a callback that consumes nothing        *)
(* invokes it once per item, latches no error and leaves the cursor after   *)
(* the closing bracket.                                                     *)
C7_IdleItemCallbackSkips ==
    (ArrayExit /\ Idle) =>
        /\ Len(Fr.cbs) = Len(Elems.starts)
        /\ error_pos = 0
        /\ pos = JsonAfter(data, Fr.entry)

(* C7 as the code has it: try_array does not skip.  When the first callback *)
(* of a well-formed array leaves the cursor where it was, no other callback *)
(* is invoked, the error "expected ',' or ']'" is latched at the first      *)
(* item, the cursor is at the end of the input and the traversal returns    *)
(* (true).                                                                  *)
C7_IdleItemCallbackLatchesError ==
    /\ (ev.kind = "next" /\ IsArrayOp(ev.op)
           /\ JsonValueEnd(data, Fr.entry) # 0) =>
          Fr.rets[Len(Fr.rets)] # Fr.cbs[Len(Fr.rets)]
    /\ (ArrayExit /\ Fr.rets[1] = Fr.cbs[1]) =>
          /\ Len(Fr.cbs) = 1
          /\ Ret = TRUE
          /\ error_pos = Fr.cbs[1]
          /\ error_text = "expected ',' or ']'"
          /\ pos = end

(* An idle callback in a well-formed array of two or more items.            *)
C7_Witness ==
    /\ ArrayExit
    /\ Fr.rets[1] = Fr.cbs[1]
    /\ Len(Elems.starts) >= 2
    /\ error_pos # 0

(* C8: try_array of a well-formed array of n items, with a callback that    *)
(* consumes exactly the current item: each invocation finds the cursor at   *)
(* the next item in source order, and the traversal returns true after n    *)
(* invocations (without any for an empty array, with or without whitespace  *)
(* between the brackets), no error latched, the cursor at the first         *)
(* significant byte after the closing bracket.                              *)
C8_ArrayItemsInOrder ==
    /\ (ev.kind \in {"call", "enter"} /\ IsArrayOp(ev.op)
           /\ WellFormedAt(ev.pre) /\ JsonKind(data, ev.pre.pos) = "array") =>
          IF JsonElems(data, ev.pre.pos).starts = <<>>
          THEN /\ ev.kind = "call"
               /\ Ret = TRUE
               /\ error_pos = 0
               /\ pos = JsonAfter(data, ev.pre.pos)
          ELSE ev.kind = "enter"
    /\ (ev.kind \in {"enter", "next"} /\ IsArrayOp(ev.op)
           /\ JsonValueEnd(data, Fr.entry) # 0 /\ Exact) =>
          /\ Len(Fr.cbs) <= Len(Elems.starts)
          /\ Fr.cbs = SubSeq(Elems.starts, 1, Len(Fr.cbs))
          /\ pos = Fr.cbs[Len(Fr.cbs)]
          /\ error_pos = 0
    /\ (ArrayExit /\ Exact) =>
          /\ Ret = TRUE
          /\ Fr.cbs = Elems.starts
          /\ error_pos = 0
          /\ pos = JsonAfter(data, Fr.entry)

(* A try_array over two or more items, each consumed by its callback, has   *)
(* returned.                                                                *)
C8_Witness ==
    /\ ArrayExit
    /\ ev.op = "try_array"
    /\ Exact
    /\ Len(Fr.cbs) >= 2
    /\ pos = JsonAfter(data, Fr.entry)

(* C9: try_object of a well-formed object, with a callback that consumes    *)
(* its field's value or leaves it to the reader: the callback is invoked    *)
(* once per field, in source order, with the decoded field name, the cursor *)
(* at the first byte of the field's value.                                  *)
C9_FieldsInOrder ==
    (ObjectExit /\ ev.op = "try_object" /\ IdleOrExact) =>
        /\ Fr.cbs = Elems.starts
        /\ Len(Fr.names) = Len(Elems.names)
        /\ \A i \in 1..Len(Fr.names) :
              Fr.names[i] = JsonDecode(data, Elems.names[i]).str


(* What is left of the input at the cursor of an istream_reader s: the      *)
(* current byte and the bytes of the stream not yet read.                   *)
StreamRest(s) ==
    IF s.cur = 0 THEN <<>>
    ELSE <<s.cur>> \o SubSeq(s.stream, s.spos + 1, Len(s.stream))

(* What is left of the input at the cursor of a memory-block reader r.      *)
Rest(r) == SubSeq(r.data, r.pos, r.end - 1)

(* Whether the text begins with the complete literal the probe op looks     *)
(* for: true or false for try_bool, null for get_null.                      *)
StartsWithLiteral(text, op) ==
    IF op = "try_bool"
    THEN \/ JsonStartsWith(text, 1, B(<<"t","r","u","e">>))
         \/ JsonStartsWith(text, 1, B(<<"f","a","l","s","e">>))
    ELSE JsonStartsWith(text, 1, B(<<"n","u","l","l">>))

(* C11, istream_reader: try_bool and get_null called where the input does   *)
(* not begin with the complete literal fail cleanly: try_bool returns       *)
(* nullopt, get_null returns false, and the reader is as it was (nothing    *)
(* read from the stream, no error recorded).                                *)
C11_StreamKeywordMismatchIsClean ==
    (ev.op \in {"try_bool", "get_null"}
        /\ ~StartsWithLiteral(StreamRest(ev.pre), ev.op)) =>
        /\ ev.op = "try_bool" => ~Ret.has
        /\ ev.op = "get_null" => Ret = FALSE
        /\ StreamReader = ev.pre

(* C11, memory_block_reader: the same, the reader being as it was (cursor   *)
(* unchanged, no error latched).                                            *)
C11_MemoryKeywordMismatchIsClean ==
    (ev.op \in {"try_bool", "get_null"}
        /\ ~StartsWithLiteral(Rest(ev.pre), ev.op)) =>
        /\ ev.op = "try_bool" => ~Ret.has
        /\ ev.op = "get_null" => Ret = FALSE
        /\ Reader = ev.pre


(* Whether the reader r is, with no error latched, at a number of the JSON  *)
(* grammar that is followed, after optional whitespace, by a byte that is   *)
(* not ',', ']' or '}' and that does not continue the number (no digit and  *)
(* no '.' right after it).  GarbageAt is where that byte is.                *)
GarbageAt(r) == JsonWsEnd(r.data, JsonNumberEnd(r.data, r.pos))

NumberThenGarbage(r) ==
    /\ r.error_pos = 0
    /\ r.pos # r.end
    /\ JsonNumberEnd(r.data, r.pos) # 0
    /\ JsonNumberEnd(r.data, r.pos) <= Len(r.data)
    /\ ~IsDigit(r.data[JsonNumberEnd(r.data, r.pos)])
    /\ r.data[JsonNumberEnd(r.data, r.pos)] # Ch(".")
    /\ GarbageAt(r) <= Len(r.data)
    /\ r.data[GarbageAt(r)] \notin {Ch(","), Ch("]"), Ch("}")}

(* C12 as claimed: try_number at a number followed by such a byte returns   *)
(* nullopt and leaves the cursor where it was.                              *)
C12_GarbageAfterNumberLeavesCursor ==
    (ev.op = "try_number" /\ NumberThenGarbage(ev.pre)) =>
        (~Ret.has /\ pos = ev.pre.pos)

(* C12 as the code has it: try_number at a number followed by such a byte   *)
(* returns nullopt and latches an error, which puts the cursor at the end   *)
(* of the input: "number format error" at the offending byte, unless the    *)
(* number itself is out of range ("numeric overflow", at the number).       *)
C12_GarbageAfterNumberLatchesError ==
    (ev.op = "try_number" /\ NumberThenGarbage(ev.pre)) =>
        /\ ~Ret.has
        /\ pos = end
        /\ \/ error_text = "number format error" /\ error_pos = GarbageAt(ev.pre)
           \/ error_text = "numeric overflow" /\ error_pos = ev.pre.pos

(* try_number was called at the start of -1.0e+28a and has latched the      *)
(* error at the 'a'.                                                        *)
C12_Witness ==
    /\ ev.op = "try_number"
    /\ ev.pre.data = B(<<"-","1",".","0","e","+","2","8","a">>)
    /\ ev.pre.pos = 1
    /\ ev.pre.error_pos = 0
    /\ ~Ret.has
    /\ error_pos = 9
    /\ pos = end


-----------------------------------------------------------------------------
(* Objects with a malformed separator: a first field "a" with a well-formed *)
(* value, then a dangling comma, a wrong delimiter, no delimiter, a field   *)
(* name that is not a string or a missing ':'; and objects whose first      *)
(* field already has no string for a name or no ':'.                        *)
ObjectValues ==
    { B(<<"1">>), B(<<"\"","x","\"">>), B(<<"[","1","]">>),
      B(<<"t","r","u","e">>) }

ObjectTails ==
    { B(<<",","}">>),
      B(<<","," ","}">>),
      B(<<";","\"","b","\"",":","1","}">>),
      B(<<" ","\"","b","\"",":","1","}">>),
      B(<<":","\"","b","\"",":","1","}">>),
      B(<<",","1",":","1","}">>),
      B(<<",","\"","b","\"","}">>),
      B(<<",","\"","b","\""," ","1","}">>) }

BadObjects ==
    { B(<<"{","\"","a","\"",":">>) \o v \o t :
          v \in ObjectValues, t \in ObjectTails }
    \cup { B(<<"{","1","2","}">>), B(<<"{","\"","a","\"","}">>),
           B(<<"{","\"","a","\""," ","1","}">>), B(<<"{",",","}">>),
           B(<<"{"," ","1",":","1","}">>),
           B(<<"[","{","\"","a","\"",":","1",",","}","]">>) }

InitBadObjects == InitOn(BadObjects)

SpecBadObjects == InitBadObjects /\ [][Next]_vars

(* A byte that no scalar (number or literal) contains.                      *)
NoScalarByte(c) ==
    /\ ~IsDigit(c)
    /\ ~(c >= Ch("a") /\ c <= 122)
    /\ ~(c >= Ch("A") /\ c <= 90)
    /\ c \notin {Ch("."), Ch("+"), Ch("-")}

(* Whether the fields from q on (q is where a field name is due: after '{'  *)
(* or after a ',') are well-formed up to a malformed separator: a byte that *)
(* is not a string where the name is due, a byte other than ':' after the   *)
(* name, or, after a well-formed value, a byte that is neither ',' nor '}'  *)
(* nor part of a scalar.                                                    *)
RECURSIVE SeparatorDefect(_, _)
SeparatorDefect(d, q) ==
    IF JsonStringEnd(d, q) = 0 THEN q <= Len(d) /\ d[q] # Ch("\"")
    ELSE LET c == JsonWsEnd(d, JsonStringEnd(d, q))
             e == JsonValueEnd(d, JsonWsEnd(d, c + 1))
             a == JsonWsEnd(d, e)
         IN  IF ~Is(d, c, Ch(":")) THEN c <= Len(d)
             ELSE IF e = 0 THEN FALSE
             ELSE IF Is(d, a, Ch(","))
             THEN SeparatorDefect(d, JsonWsEnd(d, a + 1))
             ELSE a <= Len(d) /\ d[a] # Ch("}") /\ NoScalarByte(d[a])

(* The text at p is an object with a malformed separator.                   *)
BadObjectAt(d, p) ==
    /\ Is(d, p, Ch("{"))
    /\ ~Is(d, JsonWsEnd(d, p + 1), Ch("}"))
    /\ SeparatorDefect(d, JsonWsEnd(d, p + 1))

(* C13: try_object / get_object called with no error latched at an object   *)
(* with a malformed separator has, once it has returned, latched an error   *)
(* (success() is false), whatever the calls made in its callbacks; and      *)
(* try_object has returned true.                                            *)
C13_BadObjectSeparatorLatchesError ==
    /\ (ev.kind = "call" /\ IsObjectOp(ev.op) /\ ev.pre.error_pos = 0
           /\ BadObjectAt(ev.pre.data, ev.pre.pos)) =>
          /\ error_pos # 0
          /\ ~success(Reader)
          /\ ev.op = "try_object" => Ret = TRUE
    /\ (ev.kind = "exit" /\ IsObjectOp(ev.op)
           /\ BadObjectAt(data, Fr.entry)) =>
          /\ error_pos # 0
          /\ ~success(Reader)
          /\ ev.op = "try_object" => Ret = TRUE

(* try_object at {"a":1;"b":1} has returned after a callback that read the  *)
(* 1 of field "a" with a call that latched no error by itself.              *)
C13_Witness ==
    /\ ev.kind = "exit"
    /\ ev.op = "try_object"
    /\ BadObjectAt(data, Fr.entry)
    /\ Len(Fr.rets) = 1
    /\ Fr.rets[1] > Fr.cbs[1]
    /\ ev.pre.error_pos = 0
    /\ error_text = "expected ',' or '}'"
    /\ Ret = TRUE


-----------------------------------------------------------------------------
(* Arrays with a malformed separator (a dangling comma, an empty slot), and *)
(* well-formed ones beside them, read by callbacks that are one get_* call. *)
BadArrays ==
    { B(<<"[","1",",","]">>),
      B(<<"[","1",","," ","]">>),
      B(<<"[","1",",",",","2","]">>),
      B(<<"[",",","1","]">>),
      B(<<"[",",","]">>),
      B(<<"[","\"","x","\"",",","]">>),
      B(<<"[","t","r","u","e",",",",","t","r","u","e","]">>),
      B(<<"[","1",",","\"","x","\"",",","]">>) }

GoodArrays ==
    { B(<<"[","1",",","2","]">>), B(<<"[","\"","x","\"","]">>),
      B(<<"[","t","r","u","e",","," ","1","]">>) }

InitItems == InitOn(BadArrays \cup GoodArrays)

NextItems ==
    \/ TryArray
    \/ GetArray
    \/ ItemGetNumber
    \/ ItemGetBool
    \/ ItemGetString

SpecItems == InitItems /\ [][NextItems]_vars

(* Whether the items from q on (q is where an item is due: after '[' or     *)
(* after a ',') are well-formed up to an empty slot: a ',' or the closing   *)
(* ']' where an item is due.                                                *)
RECURSIVE EmptySlot(_, _)
EmptySlot(d, q) ==
    IF Is(d, q, Ch(",")) \/ Is(d, q, Ch("]")) THEN TRUE
    ELSE IF JsonValueEnd(d, q) = 0 THEN FALSE
    ELSE IF Is(d, JsonAfter(d, q), Ch(","))
    THEN EmptySlot(d, JsonWsEnd(d, JsonAfter(d, q) + 1))
    ELSE FALSE

(* The text at p is an array with a dangling comma or an empty slot.        *)
BadArrayAt(d, p) ==
    /\ Is(d, p, Ch("["))
    /\ ~Is(d, JsonWsEnd(d, p + 1), Ch("]"))
    /\ EmptySlot(d, JsonWsEnd(d, p + 1))

(* C14: try_array / get_array at an array with a dangling comma or an empty *)
(* slot, its callback being one get_* call, has latched an error once it    *)
(* has returned: success() is false.                                        *)
C14_BadArraySeparatorLatchesError ==
    (ev.kind = "exit" /\ IsArrayOp(ev.op) /\ BadArrayAt(data, Fr.entry)) =>
        (error_pos # 0 /\ ~success(Reader))


(* The input d is a JSON text (RFC 8259, section 2): one well-formed value  *)
(* with optional whitespace around it.                                      *)
JsonText(d) ==
    /\ JsonValueEnd(d, JsonWsEnd(d, 1)) # 0
    /\ JsonAfter(d, JsonWsEnd(d, 1)) = Len(d) + 1

IsGetOp(op) ==
    op \in {"get_number", "get_bool", "get_string", "get_array", "get_object"}

(* C15: when the input is not a JSON text (and not empty), success() is     *)
(* false after a get_* call made at the top level on the fresh reader has   *)
(* returned, the value having been decoded or skipped.                      *)
C15_MalformedInputIsReported ==
    /\ (ev.kind = "call" /\ ev.depth = 0 /\ IsGetOp(ev.op)
           /\ ev.pre = reset(data) /\ ev.pre.pos # ev.pre.end
           /\ ~JsonText(data)) =>
          ~success(Reader)
    /\ (ev.kind = "exit" /\ ev.depth = 1 /\ IsGetOp(ev.op)
           /\ Fr.entry = reset(data).pos /\ ~JsonText(data)) =>
          ~success(Reader)


-----------------------------------------------------------------------------
(* Quoted strings, read by the string calls with every max_size up to       *)
(* MaxSize.  A string is up to MaxPieces pieces between quotes: a plain     *)
(* byte, a simple escape, a \uXXXX escape of each UTF-8 length (hex digits  *)
(* in either case), a surrogate pair (high then low), and single surrogate  *)
(* escapes, which next to another piece make the unpaired cases.            *)
MaxPieces == 2
MaxSize == 5
Sizes == 0..MaxSize

Pieces ==
    { B(<<"a">>),
      B(<<"\\","n">>), B(<<"\\","\"">>), B(<<"\\","\\">>), B(<<"\\","/">>),
      B(<<"\\","u","0","0","4","1">>), B(<<"\\","u","0","0","7","f">>),
      B(<<"\\","u","0","0","8","0">>), B(<<"\\","u","0","0","E","9">>),
      B(<<"\\","u","0","7","f","f">>), B(<<"\\","u","0","8","0","0">>),
      B(<<"\\","u","f","f","f","F">>),
      B(<<"\\","u","D","8","0","0","\\","u","D","C","0","0">>),
      B(<<"\\","u","d","b","f","f","\\","u","d","f","f","f">>),
      B(<<"\\","u","D","8","3","D","\\","u","D","E","0","0">>),
      B(<<"\\","u","D","8","0","0">>), B(<<"\\","u","D","B","F","F">>),
      B(<<"\\","u","D","C","0","0">>), B(<<"\\","u","D","D","0","1">>),
      B(<<"\\","u","D","F","F","F">>) }

RECURSIVE Contents(_)
Contents(n) ==
    IF n = 0 THEN {<<>>}
    ELSE Contents(n - 1)
         \cup {c \o q : c \in Contents(n - 1), q \in Pieces}

Trailers == {<<>>, B(<<" ",",","1">>)}

(* Strings with characters written as their UTF-8 bytes: U+00E9 (C3 A9),    *)
(* U+20AC (E2 82 AC) and U+1F600 (F0 9F 98 80).                             *)
LiteralStrings ==
    { <<34, 195, 169, 34>>, <<34, 97, 195, 169, 34>>,
      <<34, 226, 130, 172, 97, 34>>, <<34, 97, 97, 226, 130, 172, 34>>,
      <<34, 240, 159, 152, 128, 34>>,
      <<34, 195, 169>> \o B(<<"\\","u","0","0","E","9","\"">>) }

(* Strings that are not well formed: unterminated, ending inside an escape, *)
(* with a backslash before a byte that is no escape letter (x, and the byte *)
(* 0), and with \u before fewer than four hex digits.                       *)
BadStrings ==
    { B(<<"\"">>), B(<<"\"","a","b">>), B(<<"\"","a","b","c",",","1">>),
      B(<<"\"","\\">>), B(<<"\"","a","\\">>),
      B(<<"\"","\\","x","\"">>), B(<<"\"","a","b","\\","x","\"">>),
      <<34, 92, 0, 34>>,
      B(<<"\"","\\","u","\"">>), B(<<"\"","\\","u","1","2","\"">>),
      B(<<"\"","\\","u","1","2","3">>),
      B(<<"\"","\\","u","1","2","x","4","\"">>),
      B(<<"\"","a","b","\\","u","1","2","3","\"">>),
      B(<<"\"","\\","n","\\","u","x","0","0","0","\""," ",",","1">>) }

StringInputs ==
    { <<Ch("\"")>> \o c \o <<Ch("\"")>> \o t :
          c \in Contents(MaxPieces), t \in Trailers }
    \cup { B(<<"\"","\\","b","\\","f","\\","r","\\","t","\\","n","\\","\"",
               "\\","\\","\\","/","\"">>),
           B(<<"\"","a","b","c","\\","u","1","2","3","4"," ","s","\"">>) }
    \cup LiteralStrings
    \cup BadStrings

TryStringSized ==
    \E m \in Sizes : Simple("try_string", <<m>>, try_string(Reader, m))

GetStringSized ==
    \E m \in Sizes :
        Simple("get_string", <<DefaultString, m>>,
               get_string(Reader, DefaultString, m))

ReadStringSized(m, alloc_null, s) ==
    /\ Store(s.r)
    /\ ev' = Ev("call", "read_string_to_buffer", <<m, alloc_null>>,
                [ret |-> s.ret, size |-> s.size, out |-> s.out,
                 over |-> s.over, written |-> s.written],
                FALSE, s.called, NoFrame)
    /\ UNCHANGED <<stack, strVars>>

ReadStringToBufferSized ==
    \E m \in Sizes \cup {NoCap}, alloc_null \in BOOLEAN :
        ReadStringSized(m, alloc_null,
                        read_string_to_buffer(Reader, alloc_null, m))

InitStrings == InitOn(StringInputs)

NextStrings ==
    \/ TryString
    \/ GetString
    \/ TryStringSized
    \/ GetStringSized
    \/ ReadStringToBufferSized

SpecStrings == InitStrings /\ [][NextStrings]_vars


(* The latest call is a string extraction: the max_size it was given, and   *)
(* the string it gave (the value of try_string's optional, the string of    *)
(* get_string, the bytes written to the buffer of read_string_to_buffer).   *)
IsStringOp(op) == op \in {"try_string", "get_string", "read_string_to_buffer"}

MaxSizeGiven ==
    IF ev.op = "get_string" THEN Arg[2] ELSE Arg[1]

StringGiven ==
    IF ev.op = "try_string" THEN Ret.val
    ELSE IF ev.op = "get_string" THEN Ret
    ELSE Ret.out

(* The latest call is a string extraction made, with no error latched, at   *)
(* a string literal of the JSON grammar.                                    *)
AtString ==
    /\ IsStringOp(ev.op)
    /\ ev.pre.error_pos = 0
    /\ JsonStringEnd(ev.pre.data, ev.pre.pos) # 0

(* The content of the string literal at p is one escaped surrogate pair,    *)
(* high then low.                                                           *)
PairString(d, p) ==
    /\ JsonStringEnd(d, p) = p + 14
    /\ JsonStartsWith(d, p + 1, B(<<"\\","u">>))
    /\ JsonStartsWith(d, p + 7, B(<<"\\","u">>))
    /\ JsonIsHigh(JsonHex4(d, p + 3))
    /\ JsonIsLow(JsonHex4(d, p + 9))

(* C16, memory_block_reader: an uncapped extraction of a string whose       *)
(* content is \uhhhh\ullll, h a high and l a low surrogate, latches no      *)
(* error and gives the four UTF-8 bytes of the code point                   *)
(* 0x10000 + ((h - 0xD800) << 10) + (l - 0xDC00).                           *)
C16_SurrogatePairDecodes ==
    (AtString /\ MaxSizeGiven = NoCap
        /\ PairString(ev.pre.data, ev.pre.pos)) =>
        /\ error_pos = 0
        /\ StringGiven =
             Utf8(65536
                  + (JsonHex4(ev.pre.data, ev.pre.pos + 3) - 55296) * 1024
                  + (JsonHex4(ev.pre.data, ev.pre.pos + 9) - 56320))

(* C17: an uncapped extraction of a string that has an unpaired surrogate   *)
(* escape (a high one with no low one right after it, or a low one with no  *)
(* high one right before it) latches an error.                              *)
C17_UnpairedSurrogateLatchesError ==
    (AtString /\ MaxSizeGiven = NoCap
        /\ ~JsonDecode(ev.pre.data, ev.pre.pos).ok) =>
        error_pos # 0

(* Whether the string content from p on has no escaped surrogate.           *)
RECURSIVE NoSurrogateFrom(_, _)
NoSurrogateFrom(d, p) ==
    IF d[p] = Ch("\"") THEN TRUE
    ELSE IF d[p] # Ch("\\") THEN NoSurrogateFrom(d, p + 1)
    ELSE IF d[p + 1] # Ch("u") THEN NoSurrogateFrom(d, p + 2)
    ELSE /\ ~JsonIsHigh(JsonHex4(d, p + 2))
         /\ ~JsonIsLow(JsonHex4(d, p + 2))
         /\ NoSurrogateFrom(d, p + 6)

(* C18: an uncapped try_string / get_string at a well-formed string with no *)
(* escaped surrogate gives what the string denotes (simple escapes as their *)
(* byte, \uXXXX as the UTF-8 of the code point, the rest verbatim), latches *)
(* no error and leaves the cursor at the first significant byte after the   *)
(* closing quote.                                                           *)
C18_StringDecodes ==
    (AtString /\ ev.op # "read_string_to_buffer" /\ MaxSizeGiven = NoCap
        /\ NoSurrogateFrom(ev.pre.data, ev.pre.pos + 1)) =>
        /\ ev.op = "try_string" => Ret.has
        /\ StringGiven = JsonDecode(ev.pre.data, ev.pre.pos).str
        /\ error_pos = 0
        /\ pos = JsonAfter(ev.pre.data, ev.pre.pos)

(* get_string has decoded "\n\u00E9" followed by whitespace and a comma.    *)
C18_Witness ==
    /\ ev.op = "get_string"
    /\ MaxSizeGiven = NoCap
    /\ ev.pre.pos = 1
    /\ JsonStartsWith(data, 1, B(<<"\"","\\","n","\\","u","0","0","E","9","\""," ",",">>))
    /\ Ret = <<10, 195, 169>>
    /\ pos = 12
    /\ error_pos = 0

(* C19: at a well-formed string, the size the allocator is called with and  *)
(* the length of the string try_string / get_string give are at most        *)
(* max_size, for every max_size.                                            *)
C19_SizeWithinMaxSize ==
    AtString =>
        /\ (ev.op = "read_string_to_buffer" /\ ev.alloc) =>
               Ret.size <= MaxSizeGiven
        /\ Len(StringGiven) <= MaxSizeGiven

(* What the string content from p on denotes within m bytes, a code point   *)
(* being kept whole or not at all: the bytes kept, and what did not fit     *)
(* ("escape": a \uXXXX escape or a surrogate pair; "byte": a plain byte or  *)
(* a simple escape; "none": all of it fits).                                *)
RECURSIVE JsonDecodeWithin(_, _, _, _)
JsonDecodeWithin(d, p, out, m) ==
    IF d[p] = Ch("\"") THEN [cut |-> "none", str |-> out]
    ELSE IF d[p] # Ch("\\")
    THEN IF Len(out) + 1 > m THEN [cut |-> "byte", str |-> out]
         ELSE JsonDecodeWithin(d, p + 1, Append(out, d[p]), m)
    ELSE IF d[p + 1] # Ch("u")
    THEN IF Len(out) + 1 > m THEN [cut |-> "byte", str |-> out]
         ELSE JsonDecodeWithin(d, p + 2,
                               Append(out, JsonUnEscape(d[p + 1])), m)
    ELSE IF JsonIsHigh(JsonHex4(d, p + 2))
    THEN IF Len(out) + 4 > m THEN [cut |-> "escape", str |-> out]
         ELSE JsonDecodeWithin(d, p + 12,
                  out \o Utf8(65536 + (JsonHex4(d, p + 2) - 55296) * 1024
                              + (JsonHex4(d, p + 8) - 56320)), m)
    ELSE IF Len(out) + Len(Utf8(JsonHex4(d, p + 2))) > m
    THEN [cut |-> "escape", str |-> out]
    ELSE JsonDecodeWithin(d, p + 6, out \o Utf8(JsonHex4(d, p + 2)), m)

(* The latest call is a string extraction at a well-formed string (every    *)
(* surrogate paired) that its max_size cuts at a \uXXXX escape or a pair.   *)
CutAtEscape ==
    /\ AtString
    /\ JsonDecode(ev.pre.data, ev.pre.pos).ok
    /\ JsonDecodeWithin(ev.pre.data, ev.pre.pos + 1, <<>>, MaxSizeGiven).cut
         = "escape"

(* C20: an extraction cut by max_size at a \uXXXX escape or a surrogate     *)
(* pair that does not fit gives the bytes decoded before it and none of its *)
(* own, at least max_size - 3 bytes, with no error latched.                 *)
C20_CutEscapeIsDroppedWhole ==
    CutAtEscape =>
        /\ error_pos = 0
        /\ StringGiven =
             JsonDecodeWithin(ev.pre.data, ev.pre.pos + 1, <<>>,
                              MaxSizeGiven).str
        /\ Len(StringGiven) >= MaxSizeGiven - 3

(* C20 without surrogate pairs: the same for a string with no escaped       *)
(* surrogate.                                                               *)
C20_CutPlainEscapeIsDroppedWhole ==
    (CutAtEscape /\ NoSurrogateFrom(ev.pre.data, ev.pre.pos + 1)) =>
        /\ error_pos = 0
        /\ StringGiven =
             JsonDecodeWithin(ev.pre.data, ev.pre.pos + 1, <<>>,
                              MaxSizeGiven).str
        /\ Len(StringGiven) >= MaxSizeGiven - 3


(* Whether the bytes of s from i on are whole UTF-8 sequences: a lead byte  *)
(* with as many continuation bytes (80..BF) as it announces, and so on to   *)
(* the end.                                                                 *)
Utf8Length(c) ==
    IF c < 128 THEN 1
    ELSE IF c >= 192 /\ c <= 223 THEN 2
    ELSE IF c >= 224 /\ c <= 239 THEN 3
    ELSE IF c >= 240 /\ c <= 247 THEN 4
    ELSE 0

RECURSIVE Utf8Whole(_, _)
Utf8Whole(s, i) ==
    IF i > Len(s) THEN TRUE
    ELSE /\ Utf8Length(s[i]) # 0
         /\ i + Utf8Length(s[i]) - 1 <= Len(s)
         /\ \A j \in (i + 1)..(i + Utf8Length(s[i]) - 1) :
                s[j] >= 128 /\ s[j] <= 191
         /\ Utf8Whole(s, i + Utf8Length(s[i]))

(* C21: an extraction with max_size >= 1 at a well-formed string that       *)
(* denotes valid UTF-8 gives bytes that do not end inside a multi-byte      *)
(* UTF-8 sequence.                                                          *)
C21_CapKeepsSequencesWhole ==
    (AtString /\ MaxSizeGiven >= 1
        /\ JsonDecode(ev.pre.data, ev.pre.pos).ok
        /\ Utf8Whole(JsonDecode(ev.pre.data, ev.pre.pos).str, 1)) =>
        Utf8Whole(StringGiven, 1)

(* C21 for strings written with escapes only: the same when every byte of   *)
(* the string's text is below 0x80.                                         *)
C21_CapKeepsEscapedSequencesWhole ==
    (AtString /\ MaxSizeGiven >= 1
        /\ JsonDecode(ev.pre.data, ev.pre.pos).ok
        /\ \A i \in 1..Len(ev.pre.data) : ev.pre.data[i] < 128) =>
        Utf8Whole(StringGiven, 1)

(* C22: try_string / get_string with max_size >= 1 at a well-formed string  *)
(* (every surrogate paired) latches no error and leaves the cursor at the   *)
(* first significant byte after the closing quote.                          *)
C22_CappedReadConsumesString ==
    (AtString /\ ev.op # "read_string_to_buffer" /\ MaxSizeGiven >= 1
        /\ JsonDecode(ev.pre.data, ev.pre.pos).ok) =>
        /\ error_pos = 0
        /\ pos = JsonAfter(ev.pre.data, ev.pre.pos)

(* C22 without surrogate pairs: the same for a string with no escaped       *)
(* surrogate.                                                               *)
C22_CappedReadConsumesPlainString ==
    (AtString /\ ev.op # "read_string_to_buffer" /\ MaxSizeGiven >= 1
        /\ NoSurrogateFrom(ev.pre.data, ev.pre.pos + 1)) =>
        /\ error_pos = 0
        /\ pos = JsonAfter(ev.pre.data, ev.pre.pos)

(* C23: read_string_to_buffer at a well-formed string, with an allocator    *)
(* that answers null, returns true, latches no error and leaves the cursor  *)
(* at the first significant byte after the closing quote.                   *)
C23_NullAllocatorSkipsString ==
    (AtString /\ ev.op = "read_string_to_buffer" /\ Arg[2]
        /\ JsonDecode(ev.pre.data, ev.pre.pos).ok) =>
        /\ Ret.ret
        /\ error_pos = 0
        /\ pos = JsonAfter(ev.pre.data, ev.pre.pos)

(* C24: a call of read_string_to_buffer that latches an error has not       *)
(* called the allocator.                                                    *)
C24_NoAllocationOnError ==
    (ev.op = "read_string_to_buffer" /\ ev.pre.error_pos = 0
        /\ error_pos # 0) =>
        ~ev.alloc

(* Whether the string content from p on has a defect before its closing     *)
(* quote: the input ends, a backslash is followed by the end of the input   *)
(* or by a byte outside \ " / b f n r t u, or \u is followed by fewer than  *)
(* four hex digits.                                                         *)
RECURSIVE StringDefect(_, _)
StringDefect(d, p) ==
    IF p > Len(d) THEN TRUE
    ELSE IF d[p] = Ch("\"") THEN FALSE
    ELSE IF d[p] # Ch("\\") THEN StringDefect(d, p + 1)
    ELSE IF p + 1 > Len(d) THEN TRUE
    ELSE IF d[p + 1] = Ch("u")
    THEN \/ \E j \in (p + 2)..(p + 5) : j > Len(d) \/ ~JsonIsHex(d[j])
         \/ StringDefect(d, p + 6)
    ELSE \/ d[p + 1] \notin {Ch("\\"), Ch("\""), Ch("/"), Ch("b"), Ch("f"),
                             Ch("n"), Ch("r"), Ch("t")}
         \/ StringDefect(d, p + 2)

(* The latest call is an uncapped try_string / get_string made, with no     *)
(* error latched, at a quote that opens a string with a defect.             *)
AtBadString ==
    /\ ev.op \in {"try_string", "get_string"}
    /\ MaxSizeGiven = NoCap
    /\ ev.pre.error_pos = 0
    /\ ev.pre.pos < ev.pre.end
    /\ ev.pre.data[ev.pre.pos] = Ch("\"")
    /\ StringDefect(ev.pre.data, ev.pre.pos + 1)

(* C25: an uncapped try_string / get_string at a string with a defect       *)
(* latches an error: the message is not empty and success() is false.       *)
C25_BadStringLatchesError ==
    AtBadString =>
        /\ error_pos # 0
        /\ error_text # ""
        /\ ~success(Reader)

(* C25 without the byte 0: the same when no byte of the input is 0.         *)
C25_BadTextStringLatchesError ==
    (AtBadString /\ \A i \in 1..Len(ev.pre.data) : ev.pre.data[i] # 0) =>
        /\ error_pos # 0
        /\ error_text # ""
        /\ ~success(Reader)


-----------------------------------------------------------------------------
(* Numbers.  A numeric literal at the start of a text, by the grammar       *)
(* optional sign, integer part, optional fraction, optional exponent, with  *)
(* either digit part allowed to be empty: where its significand and the     *)
(* whole literal end.                                                       *)
SignificandEnd(t) ==
    LET p0 == IF Is(t, 1, Ch("-")) THEN 2 ELSE 1
        p1 == JsonDigitsEnd(t, p0)
    IN  IF Is(t, p1, Ch(".")) THEN JsonDigitsEnd(t, p1 + 1) ELSE p1

NumberLiteralEnd(t) ==
    LET p2 == SignificandEnd(t)
        e0 == IF Is(t, p2 + 1, Ch("+")) \/ Is(t, p2 + 1, Ch("-"))
              THEN p2 + 2 ELSE p2 + 1
    IN  IF (Is(t, p2, Ch("e")) \/ Is(t, p2, Ch("E")))
           /\ JsonDigitsEnd(t, e0) > e0
        THEN JsonDigitsEnd(t, e0)
        ELSE p2

(* The text starts with a numeric literal that has a digit in its           *)
(* significand and is followed, after whitespace, by the end of the text or *)
(* by one of , ] }.                                                         *)
DelimitedNumber(t) ==
    /\ \E i \in 1..(SignificandEnd(t) - 1) : IsDigit(t[i])
    /\ \/ JsonWsEnd(t, NumberLiteralEnd(t)) > Len(t)
       \/ t[JsonWsEnd(t, NumberLiteralEnd(t))] \in {Ch(","), Ch("]"), Ch("}")}

(* The latest call was made on the istream_reader.                          *)
IsStreamCall == "spos" \in DOMAIN ev.pre

(* C26, istream_reader: try_number reports a value only at a numeric        *)
(* literal with at least one digit that is followed, after whitespace, by   *)
(* the end of the input or by one of , ] }.                                 *)
C26_StreamValueOnlyForDelimitedNumber ==
    (IsStreamCall /\ ev.op = "try_number" /\ Ret.has) =>
        DelimitedNumber(StreamRest(ev.pre))

(* C26, memory_block_reader: the same for its try_number.                   *)
C26_MemoryValueOnlyForDelimitedNumber ==
    (~IsStreamCall /\ ev.op = "try_number" /\ Ret.has) =>
        DelimitedNumber(Rest(ev.pre))

(* The text is a decimal integer literal (optional '-', one or more digits) *)
(* followed at once by the end of the text or by one of , ] }.              *)
IntegerLiteralEnd(t) == JsonDigitsEnd(t, IF Is(t, 1, Ch("-")) THEN 2 ELSE 1)

IntegerLiteral(t) ==
    /\ IntegerLiteralEnd(t) > (IF Is(t, 1, Ch("-")) THEN 2 ELSE 1)
    /\ \/ IntegerLiteralEnd(t) > Len(t)
       \/ t[IntegerLiteralEnd(t)] \in {Ch(","), Ch("]"), Ch("}")}

(* The integer the digits of t from p up to, not including, q denote.       *)
RECURSIVE DecimalValue(_, _, _)
DecimalValue(t, p, q) ==
    IF q <= p THEN 0
    ELSE DecimalValue(t, p, q - 1) * 10 + (t[q - 1] - Ch("0"))

IntegerDenoted(t) ==
    Num("num", Is(t, 1, Ch("-")),
        DecimalValue(t, IF Is(t, 1, Ch("-")) THEN 2 ELSE 1,
                     IntegerLiteralEnd(t)), 0)

(* The latest call is try_number or get_number on the istream_reader, made  *)
(* with no error recorded at a decimal integer literal.                     *)
StreamAtInteger ==
    /\ IsStreamCall
    /\ ev.op \in {"try_number", "get_number"}
    /\ ev.pre.error_text = ""
    /\ IntegerLiteral(StreamRest(ev.pre))

NumberGiven == IF ev.op = "try_number" THEN Ret.val ELSE Ret

(* C27: try_number / get_number of the istream_reader at a decimal integer  *)
(* literal give that integer, record no error and leave the cursor at the   *)
(* delimiter that follows; it is what the memory_block_reader gives on the  *)
(* same text.                                                               *)
C27_StreamReadsIntegers ==
    StreamAtInteger =>
        /\ ev.op = "try_number" => Ret.has
        /\ NumberGiven = IntegerDenoted(StreamRest(ev.pre))
        /\ s_error_text = ""
        /\ StreamRest(StreamReader)
             = SubSeq(StreamRest(ev.pre),
                      IntegerLiteralEnd(StreamRest(ev.pre)),
                      Len(StreamRest(ev.pre)))
        /\ NumberGiven = try_number(reset(StreamRest(ev.pre))).ret.val

(* C27 without the digit 9: the same for literals written with the digits   *)
(* 0 to 8.                                                                  *)
C27_StreamReadsIntegersBelowNine ==
    (StreamAtInteger
        /\ \A i \in 1..Len(StreamRest(ev.pre)) :
               StreamRest(ev.pre)[i] # Ch("9")) =>
        /\ ev.op = "try_number" => Ret.has
        /\ NumberGiven = IntegerDenoted(StreamRest(ev.pre))
        /\ s_error_text = ""
        /\ StreamRest(StreamReader)
             = SubSeq(StreamRest(ev.pre),
                      IntegerLiteralEnd(StreamRest(ev.pre)),
                      Len(StreamRest(ev.pre)))
        /\ NumberGiven = try_number(reset(StreamRest(ev.pre))).ret.val

(* The text is a literal d e E, d a digit from 1 to 9 and E an exponent of  *)
(* at least 309: a number above the largest double, 1.797...e308.           *)
OverflowLiteral(t) ==
    /\ Len(t) >= 3
    /\ IsDigit(t[1]) /\ t[1] # Ch("0")
    /\ t[2] = Ch("e")
    /\ JsonDigitsEnd(t, 3) = Len(t) + 1
    /\ DecimalValue(t, 3, Len(t) + 1) >= 309

(* C28: try_number of either reader at a literal that overflows double      *)
(* reports a value and latches the error "numeric overflow".                *)
C28_OverflowReportsValue ==
    /\ (IsStreamCall /\ ev.op = "try_number" /\ ev.pre.error_text = ""
           /\ OverflowLiteral(StreamRest(ev.pre))) =>
           (Ret.has /\ s_error_text = "numeric overflow")
    /\ (~IsStreamCall /\ ev.op = "try_number" /\ ev.pre.error_pos = 0
           /\ OverflowLiteral(Rest(ev.pre))) =>
           (Ret.has /\ error_pos # 0 /\ error_text = "numeric overflow")

(* C28, istream_reader, without the digit 9.                                *)
C28_StreamOverflowReportsValue ==
    (IsStreamCall /\ ev.op = "try_number" /\ ev.pre.error_text = ""
        /\ OverflowLiteral(StreamRest(ev.pre))
        /\ \A i \in 1..Len(StreamRest(ev.pre)) :
               StreamRest(ev.pre)[i] # Ch("9")) =>
        (Ret.has /\ s_error_text = "numeric overflow")


-----------------------------------------------------------------------------
(* C29: after reset(input), made in any state between traversals, the       *)
(* reader is as a reader newly constructed on that input: it holds the      *)
(* input, no error position and no error text, and its cursor is at the     *)
(* first significant byte of the input.  Nothing of the state before the    *)
(* reset is left, so every later result is that of a new reader.            *)
C29_ResetGivesFreshReader ==
    ev.op = "reset" =>
        Reader = [data |-> Arg[1],
                  pos |-> JsonWsEnd(Arg[1], 1),
                  end |-> Len(Arg[1]) + 1,
                  error_pos |-> 0,
                  error_text |-> ""]

(* reset(" [1]") has been called on a reader with an error latched on       *)
(* another input.                                                           *)
C29_Witness ==
    /\ ev.op = "reset"
    /\ ev.pre.error_pos # 0
    /\ ev.pre.error_text # ""
    /\ ev.pre.data # data
    /\ data = B(<<" ","[","1","]">>)
    /\ pos = 2
    /\ error_pos = 0
    /\ error_text = ""


-----------------------------------------------------------------------------
(* writer.  The sink is the sequence of the bytes written to the            *)
(* std::ostream so far; each member function gives the sink after it.       *)

(* hex(char c): c &= 0xf, then the lower-case hex digit.                    *)
hex(c) == IF c % 16 < 10 THEN (c % 16) + Ch("0") ELSE (c % 16) - 10 + Ch("a")

(* write_escaped_char that writes every byte as it is.                      *)
write_escaped_char_raw(sink, c) == Append(sink, c)

write_escaped_char(sink, c) ==
    IF c = Ch("\"") THEN sink \o B(<<"\\","\"">>)
    ELSE IF c = Ch("\\") THEN sink \o B(<<"\\","\\">>)
    ELSE IF c = Ch("CR") THEN sink \o B(<<"\\","r">>)
    ELSE IF c = Ch("LF") THEN sink \o B(<<"\\","n">>)
    ELSE IF c = Ch("TAB") THEN sink \o B(<<"\\","t">>)
    ELSE IF c = Ch("BS") THEN sink \o B(<<"\\","b">>)
    ELSE IF c = Ch("FF") THEN sink \o B(<<"\\","f">>)
    ELSE IF c < Ch(" ")
    THEN sink \o B(<<"\\","u","0","0">>) \o <<hex(c \div 16), hex(c)>>
    ELSE Append(sink, c)

RECURSIVE write_chars(_, _, _)
write_chars(sink, val, i) ==
    IF i > Len(val) THEN sink
    ELSE write_chars(write_escaped_char(sink, val[i]), val, i + 1)

(* operator() (std::string_view val)                                        *)
write_string_view(sink, val) ==
    Append(write_chars(Append(sink, Ch("\"")), val, 1), Ch("\""))

(* operator() (bool val), operator() (nullptr_t)                            *)
write_bool(sink, val) ==
    sink \o (IF val THEN B(<<"t","r","u","e">>) ELSE B(<<"f","a","l","s","e">>))

write_null(sink) == sink \o B(<<"n","u","l","l">>)

(* operator() (const char* val): the characters up to the terminating 0.    *)
RECURSIVE write_c_chars(_, _, _)
write_c_chars(sink, val, i) ==
    IF i > Len(val) \/ val[i] = 0 THEN sink
    ELSE write_c_chars(write_escaped_char(sink, val[i]), val, i + 1)

write_c_string(sink, val) ==
    Append(write_c_chars(Append(sink, Ch("\"")), val, 1), Ch("\""))

(* writer(val) for a value val = [t, v]: a bool, nullptr or a std::string,  *)
(* by the overload its type selects.                                        *)
write_value(sink, val) ==
    IF val.t = "bool" THEN write_bool(sink, val.v)
    ELSE IF val.t = "null" THEN write_null(sink)
    ELSE write_string_view(sink, val.v)

(* A writer w is the record [sink, calls]: the bytes written, and the       *)
(* indices on_item has been called with so far.                             *)
NewWriter == [sink |-> <<>>, calls |-> <<>>]

Put(w, c) == [w EXCEPT !.sink = Append(@, c)]

(* on_item(writer, index), writing the string items[index + 1].             *)
on_item(w, index, items) ==
    [sink |-> write_string_view(w.sink, items[index + 1]),
     calls |-> Append(w.calls, index)]

(* write_array whose loop writes no comma.                                  *)
RECURSIVE write_array_loop_bare(_, _, _, _)
write_array_loop_bare(w, i, size, items) ==
    IF i + 1 = size THEN w
    ELSE write_array_loop_bare(on_item(w, i + 1, items), i + 1, size, items)

(* write_array(size, on_item); write_array_loop is the for loop, entered    *)
(* with i = 0: for (size_t i = 0; ++i != size;).                            *)
RECURSIVE write_array_loop(_, _, _, _)
write_array_loop(w, i, size, items) ==
    IF i + 1 = size THEN w
    ELSE write_array_loop(on_item(Put(w, Ch(",")), i + 1, items),
                          i + 1, size, items)

write_array(w, size, items) ==
    IF size # 0
    THEN Put(write_array_loop(on_item(Put(w, Ch("[")), 0, items),
                              0, size, items),
             Ch("]"))
    ELSE Put(Put(w, Ch("[")), Ch("]"))

(* field_stream: fs is the record [w, is_first].  add_field_name that       *)
(* writes a comma before every field is the variant below.                  *)
add_field_name_always_comma(fs, field_name) ==
    [w |-> [fs.w EXCEPT !.sink =
                Append(write_c_string(Append(fs.w.sink, Ch(",")), field_name),
                       Ch(":"))],
     is_first |-> FALSE]

add_field_name(fs, field_name) ==
    [w |-> [fs.w EXCEPT !.sink =
                Append(write_c_string(IF fs.is_first THEN fs.w.sink
                                      ELSE Append(fs.w.sink, Ch(",")),
                                      field_name),
                       Ch(":"))],
     is_first |-> FALSE]

(* The value written after add_field_name has answered fs.                  *)
field_value(fs, val) ==
    [fs EXCEPT !.w.sink = write_value(fs.w.sink, val)]

field_array(fs, items) ==
    [fs EXCEPT !.w = write_array(fs.w, Len(items), items)]

(* One call c on the field_stream: operator() with a value ("scalar"),      *)
(* operator() with a std::optional ("optional", c.has saying that it holds  *)
(* a value), write_field followed by the value written with the writer it   *)
(* returns ("write_field"), and write_array ("write_array").                *)
field_call(fs, c) ==
    IF c.kind = "optional" /\ ~c.has THEN fs
    ELSE IF c.kind = "write_array"
    THEN field_array(add_field_name(fs, c.name), c.items)
    ELSE field_value(add_field_name(fs, c.name), c.val)

(* field_maker(field_stream{*this}), making the calls cs in order.          *)
RECURSIVE field_maker(_, _, _)
field_maker(fs, cs, i) ==
    IF i > Len(cs) THEN fs
    ELSE field_maker(field_call(fs, cs[i]), cs, i + 1)

write_object(w, cs) ==
    Put(field_maker([w |-> Put(w, Ch("{")), is_first |-> TRUE], cs, 1).w,
        Ch("}"))

(* What is written and read back: every string of up to MaxWriteLen bytes   *)
(* of WriteAlphabet (control characters, the quote, the backslash, letters  *)
(* and a byte above 0x7f), and every array of up to MaxItems strings of     *)
(* ItemValues.  Each is kept with the text the writer gives for it.         *)
MaxWriteLen == 3
MaxItems == 3

WriteAlphabet == {0, Ch("LF"), 31, Ch("\""), Ch("\\"), Ch("a"), Ch("u"), 200}

WriteStrings == UNION {[1..n -> WriteAlphabet] : n \in 0..MaxWriteLen}

ItemValues == {<<>>, B(<<"a">>), B(<<",">>), B(<<"]">>), B(<<"\"">>)}

WriteArrays == UNION {[1..n -> ItemValues] : n \in 0..MaxItems}

WrittenStrings == {<<v, write_string_view(<<>>, v)>> : v \in WriteStrings}

WrittenArrays ==
    {<<a, write_array(NewWriter, Len(a), a).sink>> : a \in WriteArrays}

InitWritten ==
    InitOn({w[2] : w \in WrittenStrings} \cup {w[2] : w \in WrittenArrays})

NextWritten ==
    \/ TryString
    \/ GetString
    \/ TryArray
    \/ ItemGetString

SpecWritten == InitWritten /\ [][NextWritten]_vars

(* C30: a string written by the writer and read back from its first byte by *)
(* an uncapped try_string / get_string is given as it was, with no error    *)
(* and success() true; an array of n items written by write_array and read  *)
(* back from its first byte by try_array, the callback reading one string,  *)
(* returns true after exactly n invocations of the callback, with no error. *)
C30_WriterRoundTrip ==
    /\ \A w \in WrittenStrings :
          (ev.op \in {"try_string", "get_string"} /\ ev.pre.pos = 1
              /\ ev.pre.error_pos = 0 /\ ev.pre.data = w[2]) =>
              /\ ev.op = "try_string" => Ret.has
              /\ StringGiven = w[1]
              /\ error_pos = 0
              /\ success(Reader)
    /\ \A w \in WrittenArrays :
          /\ (ev.op = "try_array" /\ ev.kind = "call" /\ ev.pre.pos = 1
                 /\ ev.pre.error_pos = 0 /\ ev.pre.data = w[2]) =>
                 (Ret = TRUE /\ Len(w[1]) = 0 /\ error_pos = 0)
          /\ (ev.op = "try_array" /\ ev.kind \in {"enter", "next"}
                 /\ Fr.entry = 1 /\ data = w[2]) =>
                 (Len(Fr.cbs) <= Len(w[1]) /\ error_pos = 0)
          /\ (ev.op = "try_array" /\ ev.kind = "exit"
                 /\ Fr.entry = 1 /\ data = w[2]) =>
                 (Ret = TRUE /\ Len(Fr.cbs) = Len(w[1]) /\ error_pos = 0)

(* get_string has read back a string of a quote, a backslash and the        *)
(* control character 0x1f.                                                  *)
C30_Witness ==
    /\ ev.op = "get_string"
    /\ ev.pre.pos = 1
    /\ data = B(<<"\"","\\","\"","\\","\\","\\","u","0","0","1","f","\"">>)
    /\ Ret = <<Ch("\""), Ch("\\"), 31>>
    /\ success(Reader)

(* try_array has read back an array of three strings, three invocations.    *)
C30_ArrayWitness ==
    /\ ev.op = "try_array"
    /\ ev.kind = "exit"
    /\ data = write_array(NewWriter, 3,
                          <<B(<<",">>), B(<<"]">>), B(<<"\"">>)>>).sink
    /\ Len(Fr.cbs) = 3
    /\ error_pos = 0


-----------------------------------------------------------------------------
(* The application of a writer: each step constructs a writer on an empty   *)
(* sink and makes one call, whose arguments and writer afterwards are the   *)
(* latest step.  An object is written by up to MaxFields calls on the       *)
(* field_stream, drawn from FieldCalls.                                     *)
MaxFields == 3

FieldCalls ==
    { [kind |-> "scalar", name |-> B(<<"a">>), val |-> [t |-> "bool", v |-> TRUE]],
      [kind |-> "scalar", name |-> B(<<"b">>), val |-> [t |-> "null", v |-> FALSE]],
      [kind |-> "scalar", name |-> B(<<"a">>),
       val |-> [t |-> "string", v |-> B(<<"s">>)]],
      [kind |-> "optional", name |-> B(<<"a">>), has |-> TRUE,
       val |-> [t |-> "bool", v |-> FALSE]],
      [kind |-> "optional", name |-> B(<<"b">>), has |-> FALSE,
       val |-> [t |-> "bool", v |-> FALSE]],
      [kind |-> "write_field", name |-> B(<<"b">>),
       val |-> [t |-> "bool", v |-> TRUE]],
      [kind |-> "write_array", name |-> B(<<"a">>), items |-> <<>>],
      [kind |-> "write_array", name |-> B(<<"b">>),
       items |-> <<B(<<"a">>), B(<<"s">>)>>] }

FieldCallLists == UNION {[1..n -> FieldCalls] : n \in 0..MaxFields}

Written(op, arg, w) ==
    /\ ev' = Ev("call", op, arg, w, FALSE, FALSE, NoFrame)
    /\ UNCHANGED <<memVars, strVars>>

WriteStringView ==
    \E v \in WriteStrings :
        Written("write_string_view", <<v>>,
                [NewWriter EXCEPT !.sink = write_string_view(<<>>, v)])

WriteArray ==
    \E a \in WriteArrays :
        Written("write_array", <<Len(a), a>>, write_array(NewWriter, Len(a), a))

WriteObject ==
    \E cs \in FieldCallLists :
        Written("write_object", <<cs>>, write_object(NewWriter, cs))

InitWriter == InitOn({<<>>})

NextWriter ==
    \/ WriteStringView
    \/ WriteArray
    \/ WriteObject

SpecWriter == InitWriter /\ [][NextWriter]_vars

(* The text of a string item or value: its bytes between quotes, the quote  *)
(* written as \".                                                           *)
QuotedText(v) ==
    IF v = B(<<"\"">>) THEN B(<<"\"","\\","\"","\"">>)
    ELSE <<Ch("\"")>> \o v \o <<Ch("\"")>>

(* The texts of a sequence, with one comma between consecutive ones.        *)
RECURSIVE Joined(_, _)
Joined(texts, i) ==
    IF i > Len(texts) THEN <<>>
    ELSE IF i = Len(texts) THEN texts[i]
    ELSE texts[i] \o <<Ch(",")>> \o Joined(texts, i + 1)

ArrayText(items) ==
    <<Ch("[")>> \o Joined([i \in 1..Len(items) |-> QuotedText(items[i])], 1)
                \o <<Ch("]")>>

(* C31: write_array(size, on_item) has called on_item with the indices 0,   *)
(* 1, ..., size - 1 in that order and no others, and has written '[', the   *)
(* items with one ',' between consecutive ones, and ']'; for size 0 it has  *)
(* written [] and has not called on_item.                                   *)
C31_WriteArrayCallsAndCommas ==
    ev.op = "write_array" =>
        /\ Ret.calls = [i \in 1..Arg[1] |-> i - 1]
        /\ Ret.sink = ArrayText(Arg[2])
        /\ Arg[1] = 0 => (Ret.sink = B(<<"[","]">>) /\ Ret.calls = <<>>)

(* write_array(3, on_item) has written three items, among them a comma and  *)
(* a closing bracket as strings.                                            *)
C31_Witness ==
    /\ ev.op = "write_array"
    /\ Arg[1] = 3
    /\ Arg[2] = <<B(<<",">>), B(<<"]">>), B(<<"a">>)>>
    /\ Ret.calls = <<0, 1, 2>>
    /\ Ret.sink = B(<<"[","\"",",","\"",",","\"","]","\"",",","\"","a","\"","]">>)

(* The text of a value and of the field a call on the field_stream emits.   *)
ValueText(val) ==
    IF val.t = "bool"
    THEN (IF val.v THEN B(<<"t","r","u","e">>) ELSE B(<<"f","a","l","s","e">>))
    ELSE IF val.t = "null" THEN B(<<"n","u","l","l">>)
    ELSE QuotedText(val.v)

FieldText(c) ==
    QuotedText(c.name) \o <<Ch(":")>>
        \o (IF c.kind = "write_array" THEN ArrayText(c.items)
            ELSE ValueText(c.val))

(* The calls of cs that emit a field: all but an optional with no value.    *)
Emitted(cs) ==
    SelectSeq(cs, LAMBDA c : ~(c.kind = "optional" /\ ~c.has))

(* C32: write_object has written '{', each emitted field as "name":value    *)
(* with one ',' between consecutive emitted fields and none before the      *)
(* first or after the last, and '}'; an optional field with no value has    *)
(* written nothing.                                                         *)
C32_WriteObjectFieldsAndCommas ==
    ev.op = "write_object" =>
        Ret.sink = <<Ch("{")>>
                   \o Joined([i \in 1..Len(Emitted(Arg[1])) |->
                                 FieldText(Emitted(Arg[1])[i])], 1)
                   \o <<Ch("}")>>

(* write_object has written a field, skipped an optional with no value and  *)
(* written an array field after it.                                         *)
C32_Witness ==
    /\ ev.op = "write_object"
    /\ Len(Arg[1]) = 3
    /\ Arg[1][1].kind = "scalar" /\ Arg[1][1].val.t = "string"
    /\ Arg[1][2].kind = "optional" /\ ~Arg[1][2].has
    /\ Arg[1][3].kind = "write_array" /\ Len(Arg[1][3].items) = 2
    /\ Ret.sink = B(<<"{","\"","a","\"",":","\"","s","\"",",","\"","b","\"",":",
                      "[","\"","a","\"",",","\"","s","\"","]","}">>)


-----------------------------------------------------------------------------
(* Skipping.  The reader is constructed on every text of up to MaxSkipLen   *)
(* bytes of SkipAlphabet, on every nest of up to MaxNest opening brackets   *)
(* followed by their closers (alone and with a trailer), and on texts with  *)
(* brackets and escaped quotes inside strings; get_number and get_bool skip *)
(* the value they do not find.                                              *)
MaxSkipLen == 4
MaxNest == 4

SkipAlphabet == {Ch("["), Ch("]"), Ch("{"), Ch("}"), Ch("\""), Ch("\\"), Ch("1")}

Closer(c) == IF c = Ch("[") THEN Ch("]") ELSE Ch("}")

(* The closers of the openers o, innermost first.                           *)
RECURSIVE Closers(_)
Closers(o) ==
    IF o = <<>> THEN <<>>
    ELSE <<Closer(o[Len(o)])>> \o Closers(SubSeq(o, 1, Len(o) - 1))

Nests ==
    { o \o Closers(o) \o t :
          o \in UNION {[1..n -> {Ch("["), Ch("{")}] : n \in 1..MaxNest},
          t \in {<<>>, B(<<" ",",","1">>)} }

SkipInputs ==
    UNION {[1..n -> SkipAlphabet] : n \in 0..MaxSkipLen}
    \cup Nests
    \cup { B(<<"{","\"","a","\"",":","[","1","}","]">>),
           B(<<"[","\"","]","\"","]"," ","1">>),
           B(<<"[","\"","a","\\","\"","]","\"",",","{","\"","}","[","\"",":","1","}","]">>),
           B(<<"{","\"","\\","\\","\"",":","[","\"","{","\"","]","}"," ",",">>),
           B(<<"[","\"","a","\\","\"","]">>),
           B(<<"[","{","\"","a","\"",":","[","]","}",",","[","[","]","]">>) }

InitSkip == InitOn(SkipInputs)

NextSkip ==
    \/ GetNumber
    \/ GetBool

SpecSkip == InitSkip /\ [][NextSkip]_vars

(* What becomes of the brackets from p on, `open` being the closers still   *)
(* expected, innermost last: "closed" with the position after the last      *)
(* closer, "mismatch" at a closer that is not the innermost expected one,   *)
(* or "incomplete" when the text ends first.  A string runs from its quote  *)
(* to the next quote that no backslash escapes, and nothing inside it       *)
(* counts.                                                                  *)
RECURSIVE StringClose(_, _)
StringClose(d, p) ==
    IF p > Len(d) THEN 0
    ELSE IF d[p] = Ch("\\") THEN (IF p + 1 > Len(d) THEN 0
                                  ELSE StringClose(d, p + 2))
    ELSE IF d[p] = Ch("\"") THEN p + 1
    ELSE StringClose(d, p + 1)

RECURSIVE Brackets(_, _, _)
Brackets(d, p, open) ==
    IF p > Len(d) THEN [is |-> "incomplete", at |-> p]
    ELSE IF d[p] = Ch("\"")
    THEN (IF StringClose(d, p + 1) = 0 THEN [is |-> "incomplete", at |-> p]
          ELSE Brackets(d, StringClose(d, p + 1), open))
    ELSE IF d[p] \in {Ch("["), Ch("{")}
    THEN Brackets(d, p + 1, Append(open, Closer(d[p])))
    ELSE IF d[p] \in {Ch("]"), Ch("}")}
    THEN (IF open[Len(open)] # d[p] THEN [is |-> "mismatch", at |-> p]
          ELSE IF Len(open) = 1 THEN [is |-> "closed", at |-> p + 1]
          ELSE Brackets(d, p + 1, SubSeq(open, 1, Len(open) - 1)))
    ELSE Brackets(d, p + 1, open)

(* The latest call is a get_number or get_bool made, with no error latched, *)
(* at an opening bracket: it has skipped the value there.                   *)
SkippedBracket ==
    /\ ev.op \in {"get_number", "get_bool"}
    /\ ev.pre.error_pos = 0
    /\ ev.pre.pos < ev.pre.end
    /\ ev.pre.data[ev.pre.pos] \in {Ch("["), Ch("{")}

BracketsSkipped ==
    Brackets(ev.pre.data, ev.pre.pos + 1,
             <<Closer(ev.pre.data[ev.pre.pos])>>)

(* C33: skipping a value that starts with a bracket latches an error when a *)
(* closer does not match the innermost open bracket and when the input ends *)
(* with a bracket open; brackets and quotes inside strings do not count, so *)
(* a value whose brackets outside strings are closed in order is skipped    *)
(* with no error, up to the first significant byte after its last closer.   *)
C33_SkipChecksBrackets ==
    SkippedBracket =>
        /\ BracketsSkipped.is \in {"mismatch", "incomplete"} => error_pos # 0
        /\ BracketsSkipped.is = "closed" =>
               /\ error_pos = 0
               /\ pos = JsonWsEnd(data, BracketsSkipped.at)

(* A mismatched closer behind a string that holds an escaped quote and a    *)
(* matching closer has latched an error.                                    *)
C33_Witness ==
    /\ SkippedBracket
    /\ data = B(<<"{","\"","a","\"",":","[","1","}","]">>)
    /\ BracketsSkipped.is = "mismatch"
    /\ error_text = "mismatched }"

(* The text at p is N opening brackets followed by their N closers.         *)
IsNest(d, p, n) ==
    /\ n >= 1
    /\ p + 2 * n - 1 <= Len(d)
    /\ \A i \in 0..(n - 1) :
          /\ d[p + i] \in {Ch("["), Ch("{")}
          /\ d[p + 2 * n - 1 - i] = Closer(d[p + i])

(* C34: skipping N opening brackets followed by their N closers, for every  *)
(* N from 1 to MaxNest and every mix of '[' and '{': the vector of expected *)
(* closers never holds more than N entries and is empty at the end, no      *)
(* error is latched and the cursor is at the first significant byte after   *)
(* the last closer.                                                         *)
C34_NestSkippedWithBoundedStack ==
    \A n \in 1..MaxNest :
        (SkippedBracket /\ IsNest(ev.pre.data, ev.pre.pos, n)) =>
            /\ skip_until(Advance(ev.pre),
                          Closer(ev.pre.data[ev.pre.pos])).most <= n
            /\ skip_until(Advance(ev.pre),
                          Closer(ev.pre.data[ev.pre.pos])).expects = <<>>
            /\ error_pos = 0
            /\ pos = JsonWsEnd(data, ev.pre.pos + 2 * n)

(* A nest of MaxNest mixed brackets has been skipped.                       *)
C34_Witness ==
    /\ SkippedBracket
    /\ IsNest(ev.pre.data, ev.pre.pos, MaxNest)
    /\ ev.pre.data[ev.pre.pos] = Ch("[")
    /\ ev.pre.data[ev.pre.pos + 1] = Ch("{")
    /\ skip_until(Advance(ev.pre), Ch("]")).most = MaxNest
    /\ pos = end
    /\ error_pos = 0


-----------------------------------------------------------------------------
(* Where the cursor rests.  The reader is constructed, with an explicit     *)
(* length, on every text of up to MaxCursorLen bytes of CursorAlphabet,     *)
(* which holds the byte 0 beside a space, a digit, a letter, a comma and a  *)
(* quote; the scalar operations are called in any order.                    *)
MaxCursorLen == 3

CursorAlphabet == {0, Ch(" "), Ch("1"), Ch("t"), Ch(","), Ch("\"")}

CursorInputs == UNION {[1..n -> CursorAlphabet] : n \in 1..MaxCursorLen}

InitCursor == InitOn(CursorInputs)

NextCursor ==
    \/ TryNumber
    \/ GetNumber
    \/ TryBool
    \/ GetBool
    \/ GetNull
    \/ TryString
    \/ GetString

SpecCursor == InitCursor /\ [][NextCursor]_vars

(* C35: between public calls the cursor of the memory reader is at the end  *)
(* of the input or at a byte above the space (0x20).                        *)
C35_CursorAtSignificantByte == pos = end \/ data[pos] > 32

(* The same for inputs that hold no byte 0.                                 *)
C35_CursorAtSignificantByteOfText ==
    (\A i \in 1..Len(data) : data[i] # 0) => (pos = end \/ data[pos] > 32)


-----------------------------------------------------------------------------
(* The buffer of read_string_to_buffer.                                     *)

(* The latest call is a read_string_to_buffer whose allocator was called    *)
(* and gave a buffer.                                                       *)
BufferGiven ==
    /\ ev.op = "read_string_to_buffer"
    /\ ev.alloc
    /\ ~Arg[2]

(* C37: when the allocator is called with size n and gives a buffer, the    *)
(* second loop writes exactly n bytes: the write pointer ends at the end of *)
(* the buffer, never past it, and every byte of the buffer is written.      *)
C37_Pass2WritesWholeBuffer ==
    BufferGiven =>
        /\ ~Ret.over
        /\ Len(Ret.out) = Ret.size
        /\ Ret.written = Ret.size

(* The same for inputs that hold no byte 0.                                 *)
C37_Pass2WritesWholeBufferOfText ==
    (BufferGiven /\ \A i \in 1..Len(ev.pre.data) : ev.pre.data[i] # 0) =>
        /\ ~Ret.over
        /\ Len(Ret.out) = Ret.size
        /\ Ret.written = Ret.size


-----------------------------------------------------------------------------
(* The cursor and the block.                                                *)

(* C36: in every state the cursor is within the block or at its end; it     *)
(* does not move backward except by reset; and the second loop of the       *)
(* string decoder, which re-walks the string with no bounds check, reads no *)
(* byte at or beyond the end of the block (every other read of the model is *)
(* a read of data[pos] made after the code's test pos != end).              *)
C36_CursorStaysInBlockAndMovesForward ==
    /\ [](1 <= pos /\ pos <= end /\ end = Len(data) + 1)
    /\ [][ev'.op # "reset" => pos' >= pos]_vars
    /\ [](ev.op = "read_string_to_buffer" => ~Ret.over)

(* A string with a surrogate pair has been decoded into a buffer of four    *)
(* bytes and the cursor has moved forward to the end of the block.          *)
C36_Witness ==
    /\ BufferGiven
    /\ Ret.size = 4
    /\ Ret.written = 4
    /\ Ret.out[1] >= 240
    /\ ev.pre.pos < pos
    /\ pos = end


-----------------------------------------------------------------------------
(* Where the callbacks are invoked.                                         *)

(* C39: on_item / on_field is invoked only with the cursor at the first     *)
(* byte of a value: never at the end of the input, at ',' or at a closing   *)
(* ']' or '}'.                                                              *)
C39_CallbackInvokedAtValue ==
    ev.cb =>
        /\ pos < end
        /\ data[pos] \notin {Ch(","), Ch("]"), Ch("}")}


-----------------------------------------------------------------------------
(* Termination.                                                             *)

(* C38: every traversal in progress has invoked at most as many callbacks   *)
(* as the reader has consumed bytes since the traversal was called, hence   *)
(* at most as many as the input has bytes, whatever the callbacks do; and,  *)
(* the callbacks returning, every traversal in progress eventually has      *)
(* returned.  (The operations between callbacks are single steps of the     *)
(* model: their loops, the skip engine included, advance the cursor in      *)
(* every iteration and stop at the end of the input.)                       *)
C38_TraversalsReturn ==
    /\ [](\A i \in 1..Len(stack) :
             /\ Len(stack[i].cbs) <= pos - stack[i].entry
             /\ Len(stack[i].cbs) <= Len(data))
    /\ [](ev.kind = "exit" => Len(Fr.cbs) <= Len(data))
    /\ ((stack # <<>>) ~> (stack = <<>>))

(* A traversal has returned after two callbacks that consumed nothing.      *)
C38_Witness ==
    /\ ev.kind = "exit"
    /\ stack = <<>>
    /\ Len(Fr.cbs) = 2
    /\ Len(Fr.rets) = 2
    /\ \A i \in 1..2 : Fr.rets[i] = Fr.cbs[i]

====
